---- MODULE Spec2Model ----
(***************************************************************************)
(* Persistent sequence (2-3 finger tree annotated with sizes) of           *)
(* pyrsistent_extras: the node, digit and tree algorithms of               *)
(* _psequence.hpp, the Sequence facade over them with its iterators, step  *)
(* slices and hash, the index handling, index, view and evolver of the     *)
(* Python binding (_psequence.cpp, _utility.hpp), and the weight-balanced  *)
(* sorted map of _psortedmap.hpp.                                          *)
(*                                                                         *)
(* A shared_ptr to an immutable object is modelled by the object's value;  *)
(* a null pointer and an empty std::optional by Null.  A std::pair is a    *)
(* record with fields first and second.  A function that throws returns a  *)
(* record whose err field names the exception.                             *)
(***************************************************************************)
EXTENDS Integers, Sequences, FiniteSets, TLC

\* ------------------------------------------------------------------ bounds

\* Largest sequence the caller keeps and goes on working with.
MaxSize == 6

\* Longest iterable handed to the bulk constructor as an operand.
MaxOperand == 8

\* Largest sequence built in bulk that the caller pushes onto and views, and
\* how far below that size the caller still goes on with such a sequence.
MaxDeep == 32

DeepSpan == 4

\* Largest factor of a repetition.
MaxRepeat == 5

\* Largest sequence the caller slices, largest step of a slice object and
\* most replacement values handed to a slice assignment.
MaxSlice == 10

MaxStep == 3

MaxValues == 5

\* Most indices handed to one view.
MaxPicks == 3

\* Largest sequence an evolver holds.
MaxEvolved == 2

\* Bits of a machine word (size_t), scaled down from 64: what matters is that
\* a negative number converts to one larger than every size.
SizeBits == 16

SizeMod == 2 ^ SizeBits

\* The largest Py_ssize_t.
SSizeMax == SizeMod \div 2 - 1

\* The element values.
Values == {1, 2}

\* ------------------------------------------------------------------- nodes

Null == [k |-> "null"]

Pair(a, b) == [first |-> a, second |-> b]

\* Node(const Value&): an element.
Leaf(v) == [k |-> "V", value |-> v]

\* Branch(size, n0, n1, n2): n2 may be null (a 2-branch).
Branch(size, n0, n1, n2) == [k |-> "B", size |-> size, items |-> <<n0, n1, n2>>]

Node_size(n) == IF n.k = "V" THEN 1 ELSE n.size

Node2(n0, n1) == Branch(Node_size(n0) + Node_size(n1), n0, n1, Null)

Node3(n0, n1, n2) ==
  Branch(Node_size(n0) + Node_size(n1) + Node_size(n2), n0, n1, n2)

RECURSIVE Node_depth(_)
Node_depth(n) == IF n.k = "V" THEN 0 ELSE Node_depth(n.items[1]) + 1

\* Node::operator[]
RECURSIVE Node_get(_, _)
Node_get(n, index) ==
  IF n.k = "V" THEN n.value
  ELSE LET s0 == Node_size(n.items[1])
           s1 == Node_size(n.items[2])
       IN IF index < s0 THEN Node_get(n.items[1], index)
          ELSE IF index - s0 < s1 THEN Node_get(n.items[2], index - s0)
          ELSE Node_get(n.items[3], index - s0 - s1)

RECURSIVE Node_set(_, _, _)
Node_set(n, index, value) ==
  IF n.k = "V" THEN Leaf(value)
  ELSE LET s0 == Node_size(n.items[1])
           s1 == Node_size(n.items[2])
       IN IF index < s0
          THEN Branch(n.size, Node_set(n.items[1], index, value),
                      n.items[2], n.items[3])
          ELSE IF index - s0 < s1
          THEN Branch(n.size, n.items[1],
                      Node_set(n.items[2], index - s0, value), n.items[3])
          ELSE Branch(n.size, n.items[1], n.items[2],
                      Node_set(n.items[3], index - s0 - s1, value))

\* Node::insert: (node, extra), extra the overflow or null.
RECURSIVE Node_insert(_, _, _)
Node_insert(node, index, value) ==
  IF node.k = "V" THEN Pair(Leaf(value), node)
  ELSE LET i0 == node.items[1]
           i1 == node.items[2]
           i2 == node.items[3]
           s0 == Node_size(i0)
           s1 == Node_size(i1)
       IN IF index < s0
          THEN LET r == Node_insert(i0, index, value)
               IN IF r.second = Null
                  THEN Pair(Branch(node.size + 1, r.first, i1, i2), Null)
                  ELSE IF i2 = Null
                  THEN Pair(Branch(node.size + 1, r.first, r.second, i1), Null)
                  ELSE Pair(Branch(s0 + 1, r.first, r.second, Null),
                            Node2(i1, i2))
          ELSE IF index - s0 < s1
          THEN LET r == Node_insert(i1, index - s0, value)
               IN IF r.second = Null
                  THEN Pair(Branch(node.size + 1, i0, r.first, i2), Null)
                  ELSE IF i2 = Null
                  THEN Pair(Branch(node.size + 1, i0, r.first, r.second), Null)
                  ELSE Pair(Node2(i0, r.first), Node2(r.second, i2))
          ELSE LET r == Node_insert(i2, index - s0 - s1, value)
               IN IF r.second = Null
                  THEN Pair(Branch(node.size + 1, i0, i1, r.first), Null)
                  ELSE Pair(Node2(i0, i1), Node2(r.first, r.second))

\* Fault: the merged branch keeps the size the node had before.
Node_merge_left_stale(left, node) ==
  IF left = Null THEN Pair(node, Null)
  ELSE IF node.items[3] = Null
  THEN Pair(Branch(node.size, left, node.items[1], node.items[2]), Null)
  ELSE Pair(Node2(left, node.items[1]), Node2(node.items[2], node.items[3]))

Node_merge_left(left, node) ==
  IF left = Null THEN Pair(node, Null)
  ELSE IF node.items[3] = Null
  THEN Pair(Branch(Node_size(left) + node.size,
                   left, node.items[1], node.items[2]), Null)
  ELSE Pair(Node2(left, node.items[1]), Node2(node.items[2], node.items[3]))

Node_merge_right(node, right) ==
  IF right = Null THEN Pair(node, Null)
  ELSE IF node.items[3] = Null
  THEN Pair(Branch(Node_size(right) + node.size,
                   node.items[1], node.items[2], right), Null)
  ELSE Pair(Node2(node.items[1], node.items[2]), Node2(node.items[3], right))

\* Fault: meld_right puts the node that follows in front of the merged one.
Node_meld_right_swapped(merge, node) ==
  IF merge.second # Null
  THEN IF node = Null THEN Pair(TRUE, Node2(merge.first, merge.second))
       ELSE Pair(TRUE, Node3(node, merge.first, merge.second))
  ELSE IF node = Null THEN Pair(FALSE, merge.first)
       ELSE Pair(TRUE, Node2(node, merge.first))

\* Node::meld_left / meld_right: (full, node).
Node_meld_left(node, merge) ==
  IF merge.second # Null
  THEN IF node = Null THEN Pair(TRUE, Node2(merge.first, merge.second))
       ELSE Pair(TRUE, Node3(node, merge.first, merge.second))
  ELSE IF node = Null THEN Pair(FALSE, merge.first)
       ELSE Pair(TRUE, Node2(node, merge.first))

Node_meld_right(merge, node) ==
  IF merge.second # Null
  THEN IF node = Null THEN Pair(TRUE, Node2(merge.first, merge.second))
       ELSE Pair(TRUE, Node3(merge.first, merge.second, node))
  ELSE IF node = Null THEN Pair(FALSE, merge.first)
       ELSE Pair(TRUE, Node2(merge.first, node))

\* Node::erase: (full, node); not full: node is the partial subtree, one
\* level lower, or null when an element was erased.
RECURSIVE Node_erase(_, _)
Node_erase(n, index) ==
  IF n.k = "V" THEN Pair(FALSE, Null)
  ELSE LET i0 == n.items[1]
           i1 == n.items[2]
           i2 == n.items[3]
           s0 == Node_size(i0)
           s1 == Node_size(i1)
       IN IF index < s0
          THEN LET r == Node_erase(i0, index)
               IN IF r.first
                  THEN Pair(TRUE, Branch(n.size - 1, r.second, i1, i2))
                  ELSE Node_meld_right(Node_merge_left(r.second, i1), i2)
          ELSE IF index - s0 < s1
          THEN LET r == Node_erase(i1, index - s0)
               IN IF r.first
                  THEN Pair(TRUE, Branch(n.size - 1, i0, r.second, i2))
                  ELSE Node_meld_right(Node_merge_right(i0, r.second), i2)
          ELSE LET r == Node_erase(i2, index - s0 - s1)
               IN IF r.first
                  THEN Pair(TRUE, Branch(n.size - 1, i0, i1, r.second))
                  ELSE Node_meld_left(i0, Node_merge_right(i1, r.second))

\* Node::reverse
RECURSIVE Node_reverse(_)
Node_reverse(node) ==
  IF node.k = "V" THEN node
  ELSE IF node.items[3] # Null
  THEN Branch(node.size, Node_reverse(node.items[3]),
              Node_reverse(node.items[2]), Node_reverse(node.items[1]))
  ELSE Branch(node.size, Node_reverse(node.items[2]),
              Node_reverse(node.items[1]), Null)

\* The elements below a node, left to right (the order an in-order walk of
\* items[0], items[1], items[2] visits them).
RECURSIVE Node_list(_)
Node_list(n) ==
  IF n = Null THEN <<>>
  ELSE IF n.k = "V" THEN <<n.value>>
  ELSE Node_list(n.items[1]) \o Node_list(n.items[2]) \o Node_list(n.items[3])

\* ------------------------------------------------------------------ digits

\* Digit(size, order, n0, n1, n2, n3): 1..4 nodes, the unused slots null.
Digit(size, order, n0, n1, n2, n3) ==
  [k |-> "digit", size |-> size, order |-> order, items |-> <<n0, n1, n2, n3>>]

Digit1(n0) == Digit(Node_size(n0), 1, n0, Null, Null, Null)

Digit2(n0, n1) == Digit(Node_size(n0) + Node_size(n1), 2, n0, n1, Null, Null)

Digit3(n0, n1, n2) ==
  Digit(Node_size(n0) + Node_size(n1) + Node_size(n2), 3, n0, n1, n2, Null)

Digit4(n0, n1, n2, n3) ==
  Digit(Node_size(n0) + Node_size(n1) + Node_size(n2) + Node_size(n3), 4,
        n0, n1, n2, n3)

\* Fault: the digit made of a branch is of order 3 whatever the branch holds.
Digit_from_node_full(node) ==
  Digit(node.size, 3, node.items[1], node.items[2], node.items[3], Null)

\* Digit::from(const NodePtr&): the children of a branch as a digit.
Digit_from_node(node) ==
  IF node.items[3] # Null
  THEN Digit(node.size, 3, node.items[1], node.items[2], node.items[3], Null)
  ELSE Digit(node.size, 2, node.items[1], node.items[2], Null, Null)

\* Digit::from(order, const NodePtr*): the first order nodes of an array.
Digit_from_array(order, nodes) ==
  CASE order = 1 -> Digit1(nodes[1])
    [] order = 2 -> Digit2(nodes[1], nodes[2])
    [] order = 3 -> Digit3(nodes[1], nodes[2], nodes[3])
    [] order = 4 -> Digit4(nodes[1], nodes[2], nodes[3], nodes[4])

\* Digit::from(const std::pair<NodePtr, std::optional<NodePtr>>&)
Digit_from_merge(merge) ==
  IF merge.second = Null THEN Digit1(merge.first)
  ELSE Digit2(merge.first, merge.second)

Digit_depth(d) == Node_depth(d.items[1])

Digit_back(d) == d.items[d.order]

Digit_push_front(d, node) ==
  Digit(d.size + Node_size(node), d.order + 1,
        node, d.items[1], d.items[2], d.items[3])

Digit_push_back(d, node) ==
  CASE d.order = 1 ->
         Digit(d.size + Node_size(node), 2, d.items[1], node, Null, Null)
    [] d.order = 2 ->
         Digit(d.size + Node_size(node), 3, d.items[1], d.items[2], node, Null)
    [] d.order = 3 ->
         Digit(d.size + Node_size(node), 4,
               d.items[1], d.items[2], d.items[3], node)

\* Digit::view_front: (head, tail digit); order >= 2.
Digit_view_front(d) ==
  Pair(d.items[1],
       CASE d.order = 2 -> Digit1(d.items[2])
         [] d.order = 3 -> Digit2(d.items[2], d.items[3])
         [] d.order = 4 -> Digit(d.size - Node_size(d.items[1]), 3,
                                 d.items[2], d.items[3], d.items[4], Null))

\* Digit::view_back: (init digit, last); order >= 2.
Digit_view_back(d) ==
  CASE d.order = 2 -> Pair(Digit1(d.items[1]), d.items[2])
    [] d.order = 3 -> Pair(Digit2(d.items[1], d.items[2]), d.items[3])
    [] d.order = 4 -> Pair(Digit(d.size - Node_size(d.items[4]), 3,
                                 d.items[1], d.items[2], d.items[3], Null),
                           d.items[4])

\* Digit::operator[]
Digit_get(d, index) ==
  LET s0 == Node_size(d.items[1])
      s1 == Node_size(d.items[2])
      s2 == Node_size(d.items[3])
  IN IF index < s0 THEN Node_get(d.items[1], index)
     ELSE IF index - s0 < s1 THEN Node_get(d.items[2], index - s0)
     ELSE IF index - s0 - s1 < s2 THEN Node_get(d.items[3], index - s0 - s1)
     ELSE Node_get(d.items[4], index - s0 - s1 - s2)

Digit_set(d, index, value) ==
  LET i0 == d.items[1]
      i1 == d.items[2]
      i2 == d.items[3]
      i3 == d.items[4]
      s0 == Node_size(i0)
      s1 == Node_size(i1)
      s2 == Node_size(i2)
  IN IF index < s0
     THEN Digit(d.size, d.order, Node_set(i0, index, value), i1, i2, i3)
     ELSE IF index - s0 < s1
     THEN Digit(d.size, d.order, i0, Node_set(i1, index - s0, value), i2, i3)
     ELSE IF index - s0 - s1 < s2
     THEN Digit(d.size, d.order, i0, i1,
                Node_set(i2, index - s0 - s1, value), i3)
     ELSE Digit(d.size, d.order, i0, i1, i2,
                Node_set(i3, index - s0 - s1 - s2, value))

\* The loop  for(; !check_index(index, items[mid]->size()); ++mid)  of
\* Digit::insert, Digit::erase, Tree::split and Tree::take_front: the slot
\* (from 0) holding the element at index, and the index within that slot.
RECURSIVE check_index_up(_, _, _)
check_index_up(items, mid, index) ==
  IF index < Node_size(items[mid + 1]) THEN [mid |-> mid, index |-> index]
  ELSE check_index_up(items, mid + 1, index - Node_size(items[mid + 1]))

\* The loop  while(!check_index(index, items[i]->size())) --i  of
\* Tree::take_back, the index counted from the back.
RECURSIVE check_index_down(_, _, _)
check_index_down(items, i, index) ==
  IF index < Node_size(items[i + 1]) THEN [mid |-> i, index |-> index]
  ELSE check_index_down(items, i - 1, index - Node_size(items[i + 1]))

\* Null in the four slots past a sequence's end.
Slot(nodes, i) == IF i <= Len(nodes) THEN nodes[i] ELSE Null

\* Digit::insert<Left>: (digit, extra), extra the spilled pair or null.
Digit_insert(Left, d, index, value) ==
  LET at == check_index_up(d.items, 0, index)
      mid == at.mid
      r == Node_insert(d.items[mid + 1], at.index, value)
      nodes == SubSeq(d.items, 1, mid) \o <<r.first>>
               \o (IF r.second # Null THEN <<r.second>> ELSE <<>>)
               \o SubSeq(d.items, mid + 2, d.order)
      order == Len(nodes)
  IN IF order < 5
     THEN Pair(Digit(d.size + 1, order, Slot(nodes, 1), Slot(nodes, 2),
                     Slot(nodes, 3), Slot(nodes, 4)), Null)
     ELSE IF Left
     THEN Pair(Digit3(nodes[1], nodes[2], nodes[3]), Node2(nodes[4], nodes[5]))
     ELSE Pair(Digit3(nodes[3], nodes[4], nodes[5]), Node2(nodes[1], nodes[2]))

\* Digit::erase: a digit, or (order 1, underflow) the node left over, which
\* is null when the digit held one element.
Digit_erase(d, index) ==
  LET at == check_index_up(d.items, 0, index)
      mid == at.mid
      r == Node_erase(d.items[mid + 1], at.index)
      node == r.second
  IN IF r.first
     THEN Digit_from_array(d.order, [d.items EXCEPT ![mid + 1] = node])
     ELSE IF d.order = 1 THEN node
     ELSE IF mid + 1 = d.order
     THEN LET m == Node_merge_right(d.items[mid], node)
          IN IF m.second = Null
             THEN Digit_from_array(d.order - 1,
                                   [d.items EXCEPT ![mid] = m.first])
             ELSE Digit_from_array(d.order,
                    [d.items EXCEPT ![mid] = m.first, ![mid + 1] = m.second])
     ELSE LET m == Node_merge_left(node, d.items[mid + 2])
          IN IF m.second = Null
             THEN Digit_from_array(d.order - 1,
                    SubSeq(d.items, 1, mid) \o <<m.first>>
                    \o SubSeq(d.items, mid + 3, d.order))
             ELSE Digit_from_array(d.order,
                    [d.items EXCEPT ![mid + 1] = m.first, ![mid + 2] = m.second])

\* Digit::merge_left(left, node): left is null or two levels below node.
Digit_merge_left(left, node) ==
  IF left = Null THEN Digit_from_node(node)
  ELSE LET m == Node_merge_left(left, node.items[1])
       IN IF m.second = Null
          THEN IF node.items[3] = Null THEN Digit2(m.first, node.items[2])
               ELSE Digit3(m.first, node.items[2], node.items[3])
          ELSE IF node.items[3] = Null
               THEN Digit3(m.first, m.second, node.items[2])
               ELSE Digit4(m.first, m.second, node.items[2], node.items[3])

Digit_merge_right(node, right) ==
  IF right = Null THEN Digit_from_node(node)
  ELSE IF node.items[3] = Null
  THEN LET m == Node_merge_right(node.items[2], right)
       IN IF m.second = Null THEN Digit2(node.items[1], m.first)
          ELSE Digit3(node.items[1], m.first, m.second)
  ELSE LET m == Node_merge_right(node.items[3], right)
       IN IF m.second = Null THEN Digit3(node.items[1], node.items[2], m.first)
          ELSE Digit4(node.items[1], node.items[2], m.first, m.second)

\* Fault: the nodes of the digit change places but are not reversed
\* themselves.
Digit_reverse_shallow(d) ==
  CASE d.order = 1 -> d
    [] d.order = 2 -> Digit(d.size, 2, d.items[2], d.items[1], Null, Null)
    [] d.order = 3 ->
         Digit(d.size, 3, d.items[3], d.items[2], d.items[1], Null)
    [] d.order = 4 ->
         Digit(d.size, 4, d.items[4], d.items[3], d.items[2], d.items[1])

\* Digit::reverse
Digit_reverse(d) ==
  CASE d.order = 1 ->
         Digit(d.size, 1, Node_reverse(d.items[1]), Null, Null, Null)
    [] d.order = 2 ->
         Digit(d.size, 2, Node_reverse(d.items[2]), Node_reverse(d.items[1]),
               Null, Null)
    [] d.order = 3 ->
         Digit(d.size, 3, Node_reverse(d.items[3]), Node_reverse(d.items[2]),
               Node_reverse(d.items[1]), Null)
    [] d.order = 4 ->
         Digit(d.size, 4, Node_reverse(d.items[4]), Node_reverse(d.items[3]),
               Node_reverse(d.items[2]), Node_reverse(d.items[1]))

Digit_list(d) ==
  Node_list(d.items[1]) \o Node_list(d.items[2])
    \o Node_list(d.items[3]) \o Node_list(d.items[4])

\* ------------------------------------------------------------------- trees

\* Tree(): the Empty alternative.
Empty == [k |-> "E"]

\* Tree(const NodePtr&): the single-node alternative.
Single(node) == [k |-> "S", node |-> node]

\* Deep(size, left, middle, right)
Deep(size, left, middle, right) ==
  [k |-> "D", size |-> size, left |-> left, middle |-> middle, right |-> right]

Tree_size(t) ==
  CASE t.k = "E" -> 0
    [] t.k = "S" -> Node_size(t.node)
    [] t.k = "D" -> t.size

\* Deep(left, middle, right): the size summed from the three parts.
Deep3(left, middle, right) ==
  Deep(left.size + Tree_size(middle) + right.size, left, middle, right)

Tree_depth(t) ==
  CASE t.k = "E" -> 0
    [] t.k = "S" -> Node_depth(t.node)
    [] t.k = "D" -> Digit_depth(t.left)

\* Tree::from(const DigitPtr&)
Tree_from_digit(d) ==
  CASE d.order = 1 -> Single(d.items[1])
    [] d.order = 2 ->
         Deep(d.size, Digit1(d.items[1]), Empty, Digit1(d.items[2]))
    [] d.order = 3 ->
         Deep(d.size, Digit2(d.items[1], d.items[2]), Empty, Digit1(d.items[3]))
    [] d.order = 4 ->
         Deep(d.size, Digit2(d.items[1], d.items[2]), Empty,
              Digit2(d.items[3], d.items[4]))

\* Tree::from(count, const NodePtr*): count <= 4 nodes of an array.
Tree_from_array(count, nodes) ==
  CASE count = 0 -> Empty
    [] count = 1 -> Single(nodes[1])
    [] count = 2 -> Deep3(Digit1(nodes[1]), Empty, Digit1(nodes[2]))
    [] count = 3 -> Deep3(Digit1(nodes[1]), Empty, Digit2(nodes[2], nodes[3]))
    [] count = 4 ->
         Deep3(Digit2(nodes[1], nodes[2]), Empty, Digit2(nodes[3], nodes[4]))

\* Tree::from(const std::pair<NodePtr, std::optional<NodePtr>>&)
Tree_from_merge(merge) ==
  IF merge.second = Null THEN Single(merge.first)
  ELSE Deep(Node_size(merge.first) + Node_size(merge.second),
            Digit1(merge.first), Empty, Digit1(merge.second))

RECURSIVE Tree_push_front(_, _)
Tree_push_front(t, x) ==
  CASE t.k = "E" -> Single(x)
    [] t.k = "S" ->
         Deep(Node_size(t.node) + Node_size(x), Digit1(x), Empty, Digit1(t.node))
    [] t.k = "D" ->
         IF t.left.order < 4
         THEN Deep(t.size + Node_size(x), Digit_push_front(t.left, x),
                   t.middle, t.right)
         ELSE LET items == t.left.items
              IN Deep(t.size + Node_size(x), Digit2(x, items[1]),
                      Tree_push_front(t.middle,
                        Branch(t.left.size - Node_size(items[1]),
                               items[2], items[3], items[4])),
                      t.right)

\* Fault: push_back onto a full digit packs the last three nodes and leaves
\* the first one with the new arrival.
RECURSIVE Tree_push_back_packs_last(_, _)
Tree_push_back_packs_last(t, x) ==
  CASE t.k = "E" -> Single(x)
    [] t.k = "S" ->
         Deep(Node_size(t.node) + Node_size(x), Digit1(t.node), Empty, Digit1(x))
    [] t.k = "D" ->
         IF t.right.order < 4
         THEN Deep(t.size + Node_size(x), t.left, t.middle,
                   Digit_push_back(t.right, x))
         ELSE LET items == t.right.items
              IN Deep(t.size + Node_size(x), t.left,
                      Tree_push_back_packs_last(t.middle,
                        Branch(t.right.size - Node_size(items[1]),
                               items[2], items[3], items[4])),
                      Digit2(items[1], x))

RECURSIVE Tree_push_back(_, _)
Tree_push_back(t, x) ==
  CASE t.k = "E" -> Single(x)
    [] t.k = "S" ->
         Deep(Node_size(t.node) + Node_size(x), Digit1(t.node), Empty, Digit1(x))
    [] t.k = "D" ->
         IF t.right.order < 4
         THEN Deep(t.size + Node_size(x), t.left, t.middle,
                   Digit_push_back(t.right, x))
         ELSE LET items == t.right.items
              IN Deep(t.size + Node_size(x), t.left,
                      Tree_push_back(t.middle,
                        Branch(t.right.size - Node_size(items[4]),
                               items[1], items[2], items[3])),
                      Digit2(items[4], x))

\* Tree::view_front with Tree::pull_left: (head node, tail tree); the tree
\* is not empty (the empty case throws, see view_front of the facade).
RECURSIVE Tree_view_front(_)
Tree_pull_left(t, right) ==
  IF t.k = "E" THEN Tree_from_digit(right)
  ELSE LET v == Tree_view_front(t)
       IN Deep(Tree_size(t) + right.size, Digit_from_node(v.first),
               v.second, right)

Tree_view_front(t) ==
  CASE t.k = "S" -> Pair(t.node, Empty)
    [] t.k = "D" ->
         IF t.left.order = 1
         THEN Pair(t.left.items[1], Tree_pull_left(t.middle, t.right))
         ELSE LET v == Digit_view_front(t.left)
              IN Pair(v.first,
                      Deep(t.size - Node_size(v.first), v.second,
                           t.middle, t.right))

\* Tree::view_back with Tree::pull_right: (init tree, last node).
RECURSIVE Tree_view_back(_)
\* Fault: pull_right takes the new suffix from the middle tree and leaves
\* the middle tree as it was.
Tree_pull_right_kept(t, left) ==
  IF t.k = "E" THEN Tree_from_digit(left)
  ELSE LET v == Tree_view_back(t)
       IN Deep(Tree_size(t) + left.size, left, t, Digit_from_node(v.second))

Tree_pull_right(t, left) ==
  IF t.k = "E" THEN Tree_from_digit(left)
  ELSE LET v == Tree_view_back(t)
       IN Deep(Tree_size(t) + left.size, left, v.first,
               Digit_from_node(v.second))

Tree_view_back(t) ==
  CASE t.k = "S" -> Pair(Empty, t.node)
    [] t.k = "D" ->
         IF t.right.order = 1
         THEN Pair(Tree_pull_right(t.middle, t.left), t.right.items[1])
         ELSE LET v == Digit_view_back(t.right)
              IN Pair(Deep(t.size - Node_size(v.second), t.left, t.middle,
                           v.first),
                      v.second)

\* Tree::operator[]
RECURSIVE Tree_get(_, _)
Tree_get(t, index) ==
  CASE t.k = "S" -> Node_get(t.node, index)
    [] t.k = "D" ->
         IF index < t.left.size THEN Digit_get(t.left, index)
         ELSE IF index - t.left.size < Tree_size(t.middle)
         THEN Tree_get(t.middle, index - t.left.size)
         ELSE Digit_get(t.right, index - t.left.size - Tree_size(t.middle))

RECURSIVE Tree_set(_, _, _)
Tree_set(t, index, value) ==
  CASE t.k = "S" -> Single(Node_set(t.node, index, value))
    [] t.k = "D" ->
         IF index < t.left.size
         THEN Deep(t.size, Digit_set(t.left, index, value), t.middle, t.right)
         ELSE IF index - t.left.size < Tree_size(t.middle)
         THEN Deep(t.size, t.left,
                   Tree_set(t.middle, index - t.left.size, value), t.right)
         ELSE Deep(t.size, t.left, t.middle,
                   Digit_set(t.right,
                             index - t.left.size - Tree_size(t.middle), value))

\* The elements of a tree, left to right: prefix, middle, suffix.
RECURSIVE Tree_list(_)
Tree_list(t) ==
  CASE t.k = "E" -> <<>>
    [] t.k = "S" -> Node_list(t.node)
    [] t.k = "D" ->
         Digit_list(t.left) \o Tree_list(t.middle) \o Digit_list(t.right)

\* Fault: five and seven boundary nodes are regrouped with the branch of
\* three first.
Tree_append_middle_three_first(mid, rtree) ==
  LET count == Len(mid)
      p2(t) == Tree_push_front(t, Node2(mid[1], mid[2]))
      p3(t) == Tree_push_front(t, Node3(mid[1], mid[2], mid[3]))
      p4(t) == Tree_push_front(Tree_push_front(t, Node2(mid[3], mid[4])),
                               Node2(mid[1], mid[2]))
  IN CASE count = 8 ->
            p2(Tree_push_front(
                 Tree_push_front(rtree, Node3(mid[6], mid[7], mid[8])),
                 Node3(mid[3], mid[4], mid[5])))
       [] count = 5 -> p3(Tree_push_front(rtree, Node2(mid[4], mid[5])))
       [] count = 2 -> p2(rtree)
       [] count = 6 -> p3(Tree_push_front(rtree, Node3(mid[4], mid[5], mid[6])))
       [] count = 3 -> p3(rtree)
       [] count = 7 ->
            p3(Tree_push_front(
                 Tree_push_front(rtree, Node2(mid[6], mid[7])),
                 Node2(mid[4], mid[5])))
       [] count = 4 -> p4(rtree)

\* Fault: append pushes the regrouped branches onto the middle in the order
\* it made them, so the groups come out back to front.
Tree_append_middle_reversed(mid, rtree) ==
  LET count == Len(mid)
      p2(t) == Tree_push_front(t, Node2(mid[1], mid[2]))
      p5(t) == Tree_push_front(p2(t), Node3(mid[3], mid[4], mid[5]))
      p3(t) == Tree_push_front(t, Node3(mid[1], mid[2], mid[3]))
      p4(t) == Tree_push_front(Tree_push_front(t, Node2(mid[1], mid[2])),
                               Node2(mid[3], mid[4]))
  IN CASE count = 8 -> Tree_push_front(p5(rtree), Node3(mid[6], mid[7], mid[8]))
       [] count = 5 -> p5(rtree)
       [] count = 2 -> p2(rtree)
       [] count = 6 -> Tree_push_front(p3(rtree), Node3(mid[4], mid[5], mid[6]))
       [] count = 3 -> p3(rtree)
       [] count = 7 -> Tree_push_front(p4(rtree), Node3(mid[5], mid[6], mid[7]))
       [] count = 4 -> p4(rtree)

\* The 2..8 nodes between two Deep trees that are appended (mid[0..count-1]),
\* regrouped into branches and pushed onto the front of the right middle.
Tree_append_middle(mid, rtree) ==
  LET count == Len(mid)
      p2(t) == Tree_push_front(t, Node2(mid[1], mid[2]))
      p5(t) == p2(Tree_push_front(t, Node3(mid[3], mid[4], mid[5])))
      p3(t) == Tree_push_front(t, Node3(mid[1], mid[2], mid[3]))
      p4(t) == Tree_push_front(Tree_push_front(t, Node2(mid[3], mid[4])),
                               Node2(mid[1], mid[2]))
  IN CASE count = 8 -> p5(Tree_push_front(rtree, Node3(mid[6], mid[7], mid[8])))
       [] count = 5 -> p5(rtree)
       [] count = 2 -> p2(rtree)
       [] count = 6 -> p3(Tree_push_front(rtree, Node3(mid[4], mid[5], mid[6])))
       [] count = 3 -> p3(rtree)
       [] count = 7 -> p4(Tree_push_front(rtree, Node3(mid[5], mid[6], mid[7])))
       [] count = 4 -> p4(rtree)

RECURSIVE Tree_append(_, _)
Tree_append(this, that) ==
  CASE this.k = "E" -> that
    [] this.k = "S" -> Tree_push_front(that, this.node)
    [] this.k = "D" ->
         CASE that.k = "E" -> this
           [] that.k = "S" -> Tree_push_back(this, that.node)
           [] that.k = "D" ->
                LET mid == SubSeq(this.right.items, 1, this.right.order)
                           \o SubSeq(that.left.items, 1, that.left.order)
                    rtree == Tree_append_middle(mid, that.middle)
                IN Deep(this.size + that.size, this.left,
                        Tree_append(this.middle, rtree), that.right)

\* Tree::insert: index < size.
RECURSIVE Tree_insert(_, _, _)
Tree_insert(t, index, value) ==
  CASE t.k = "S" ->
         LET r == Node_insert(t.node, index, value)
         IN IF r.second = Null THEN Single(r.first)
            ELSE Deep(Node_size(t.node) + 1, Digit1(r.first), Empty,
                      Digit1(r.second))
    [] t.k = "D" ->
         IF index < t.left.size
         THEN LET r == Digit_insert(TRUE, t.left, index, value)
                  middle == IF r.second # Null
                            THEN Tree_push_front(t.middle, r.second)
                            ELSE t.middle
              IN Deep(t.size + 1, r.first, middle, t.right)
         ELSE IF index - t.left.size < Tree_size(t.middle)
         THEN Deep(t.size + 1, t.left,
                   Tree_insert(t.middle, index - t.left.size, value), t.right)
         ELSE LET r == Digit_insert(FALSE, t.right,
                         index - t.left.size - Tree_size(t.middle), value)
                  middle == IF r.second # Null
                            THEN Tree_push_back(t.middle, r.second)
                            ELSE t.middle
              IN Deep(t.size + 1, t.left, middle, r.first)

\* Tree::erase: (full, tree); not full: the tree is Empty, or the single
\* partial node a level lower that the caller absorbs.
RECURSIVE Tree_erase(_, _)
Tree_erase(t, index) ==
  CASE t.k = "S" ->
         LET r == Node_erase(t.node, index)
         IN IF r.second = Null THEN Pair(FALSE, Empty)
            ELSE Pair(r.first, Single(r.second))
    [] t.k = "D" ->
         IF index < t.left.size
         THEN LET e == Digit_erase(t.left, index)
              IN IF e.k = "digit"
                 THEN Pair(TRUE, Deep(t.size - 1, e, t.middle, t.right))
                 ELSE IF t.middle.k # "E"
                 THEN LET v == Tree_view_front(t.middle)
                      IN Pair(TRUE, Deep(t.size - 1,
                                Digit_merge_left(e, v.first), v.second, t.right))
                 ELSE LET merge == Node_merge_left(e, t.right.items[1])
                      IN IF t.right.order = 1
                         THEN Pair(TRUE, Tree_from_merge(merge))
                         ELSE Pair(TRUE, Deep(t.size - 1,
                                Digit_from_merge(merge), Empty,
                                Digit_view_front(t.right).second))
         ELSE IF index - t.left.size < Tree_size(t.middle)
         THEN LET r == Tree_erase(t.middle, index - t.left.size)
              IN IF r.first
                 THEN Pair(TRUE, Deep(t.size - 1, t.left, r.second, t.right))
                 ELSE LET node == r.second.node
                      IN IF t.left.order = 4
                         THEN Pair(TRUE, Deep(t.size - 1,
                                Digit2(t.left.items[1], t.left.items[2]),
                                Single(Node3(t.left.items[3], t.left.items[4],
                                             node)),
                                t.right))
                         ELSE Pair(TRUE, Deep(t.size - 1,
                                Digit_from_array(t.left.order + 1,
                                  [t.left.items EXCEPT ![t.left.order + 1] = node]),
                                Empty, t.right))
         ELSE LET e == Digit_erase(t.right,
                         index - t.left.size - Tree_size(t.middle))
              IN IF e.k = "digit"
                 THEN Pair(TRUE, Deep(t.size - 1, t.left, t.middle, e))
                 ELSE IF t.middle.k # "E"
                 THEN LET v == Tree_view_back(t.middle)
                      IN Pair(TRUE, Deep(t.size - 1, t.left, v.first,
                                Digit_merge_right(v.second, e)))
                 ELSE LET merge == Node_merge_right(Digit_back(t.left), e)
                      IN IF t.left.order = 1
                         THEN Pair(TRUE, Tree_from_merge(merge))
                         ELSE Pair(TRUE, Deep(t.size - 1,
                                Digit_view_back(t.left).first, Empty,
                                Digit_from_merge(merge)))

Triple(a, b, c) == [ltree |-> a, node |-> b, rtree |-> c]

\* Fault: the array is taken from one slot too early.
From_early(items, i) == SubSeq(items, i, Len(items))

\* &items[i]: the array from slot i (counted from 0) on.
From(items, i) == SubSeq(items, i + 1, Len(items))

\* Tree::split: (left tree, node holding index, right tree); index < size.
RECURSIVE Tree_split(_, _)
Tree_split(t, index) ==
  CASE t.k = "S" -> Triple(Empty, t.node, Empty)
    [] t.k = "D" ->
         IF index < t.left.size
         THEN LET i == check_index_up(t.left.items, 0, index).mid
                  items == t.left.items
                  right == IF i + 1 = t.left.order
                           THEN Tree_pull_left(t.middle, t.right)
                           ELSE Deep3(Digit_from_array(t.left.order - i - 1,
                                                       From(items, i + 1)),
                                      t.middle, t.right)
              IN Triple(Tree_from_array(i, items), items[i + 1], right)
         ELSE IF index - t.left.size < Tree_size(t.middle)
         THEN LET s == Tree_split(t.middle, index - t.left.size)
                  items == s.node.items
                  idx == index - t.left.size - Tree_size(s.ltree)
                  s0 == Node_size(items[1])
                  s1 == Node_size(items[2])
              IN IF idx < s0
                 THEN Triple(Tree_pull_right(s.ltree, t.left), items[1],
                             Deep3(IF items[3] = Null THEN Digit1(items[2])
                                   ELSE Digit2(items[2], items[3]),
                                   s.rtree, t.right))
                 ELSE IF idx - s0 < s1
                 THEN Triple(Deep3(t.left, s.ltree, Digit1(items[1])), items[2],
                             IF items[3] = Null
                             THEN Tree_pull_left(s.rtree, t.right)
                             ELSE Deep3(Digit1(items[3]), s.rtree, t.right))
                 ELSE Triple(Deep3(t.left, s.ltree, Digit2(items[1], items[2])),
                             items[3], Tree_pull_left(s.rtree, t.right))
         ELSE LET items == t.right.items
                  i == check_index_up(items, 0,
                         index - t.left.size - Tree_size(t.middle)).mid
                  left == IF i = 0 THEN Tree_pull_right(t.middle, t.left)
                          ELSE Deep3(t.left, t.middle,
                                     Digit_from_array(i, items))
              IN Triple(left, items[i + 1],
                        Tree_from_array(t.right.order - i - 1,
                                        From(items, i + 1)))

\* Tree::take_front: (the tree before index, the node holding index).
RECURSIVE Tree_take_front(_, _)
Tree_take_front(t, index) ==
  CASE t.k = "S" -> Pair(Empty, t.node)
    [] t.k = "D" ->
         IF index < t.left.size
         THEN LET items == t.left.items
                  i == check_index_up(items, 0, index).mid
              IN Pair(Tree_from_array(i, items), items[i + 1])
         ELSE IF index - t.left.size < Tree_size(t.middle)
         THEN LET s == Tree_take_front(t.middle, index - t.left.size)
                  tree == s.first
                  items == s.second.items
                  idx == index - t.left.size - Tree_size(tree)
                  s0 == Node_size(items[1])
                  s1 == Node_size(items[2])
              IN IF idx < s0
                 THEN Pair(Tree_pull_right(tree, t.left), items[1])
                 ELSE IF idx - s0 < s1
                 THEN Pair(Deep3(t.left, tree, Digit1(items[1])), items[2])
                 ELSE Pair(Deep3(t.left, tree, Digit2(items[1], items[2])),
                           items[3])
         ELSE LET items == t.right.items
                  i == check_index_up(items, 0,
                         index - t.left.size - Tree_size(t.middle)).mid
              IN IF i = 0
                 THEN Pair(Tree_pull_right(t.middle, t.left), items[i + 1])
                 ELSE Pair(Deep3(t.left, t.middle, Digit_from_array(i, items)),
                           items[i + 1])

\* Tree::take_back: (the node holding index, the tree after it), the index
\* counted from the back.
RECURSIVE Tree_take_back(_, _)
Tree_take_back(t, index) ==
  CASE t.k = "S" -> Pair(t.node, Empty)
    [] t.k = "D" ->
         IF index < t.right.size
         THEN LET items == t.right.items
                  i == check_index_down(items, t.right.order - 1, index).mid
              IN Pair(items[i + 1],
                      Tree_from_array(t.right.order - i - 1, From(items, i + 1)))
         ELSE IF index - t.right.size < Tree_size(t.middle)
         THEN LET s == Tree_take_back(t.middle, index - t.right.size)
                  tree == s.second
                  items == s.first.items
                  idx == index - t.right.size - Tree_size(tree)
                  s2 == IF items[3] # Null THEN Node_size(items[3]) ELSE 0
                  s1 == Node_size(items[2])
              IN IF items[3] # Null /\ idx < s2
                 THEN Pair(items[3], Tree_pull_left(tree, t.right))
                 ELSE IF idx - s2 < s1
                 THEN Pair(items[2],
                           IF items[3] = Null
                           THEN Tree_pull_left(tree, t.right)
                           ELSE Deep3(Digit1(items[3]), tree, t.right))
                 ELSE Pair(items[1],
                           Deep3(IF items[3] = Null THEN Digit1(items[2])
                                 ELSE Digit2(items[2], items[3]),
                                 tree, t.right))
         ELSE LET items == t.left.items
                  i == check_index_down(items, t.left.order - 1,
                         index - t.right.size - Tree_size(t.middle)).mid
              IN IF i + 1 = t.left.order
                 THEN Pair(items[i + 1], Tree_pull_left(t.middle, t.right))
                 ELSE Pair(items[i + 1],
                           Deep3(Digit_from_array(t.left.order - i - 1,
                                                  From(items, i + 1)),
                                 t.middle, t.right))

\* Tree::reverse
RECURSIVE Tree_reverse(_)
Tree_reverse(t) ==
  CASE t.k = "E" -> Empty
    [] t.k = "S" -> Single(Node_reverse(t.node))
    [] t.k = "D" ->
         Deep3(Digit_reverse(t.right), Tree_reverse(t.middle),
               Digit_reverse(t.left))

\* ------------------------------------------------------ bulk construction

\* Node::from(depth, values): the perfect 3-ary node of that depth over the
\* next values of the iterator; (node, the values left).
RECURSIVE Node_from(_, _)
Node_from(depth, values) ==
  IF depth = 0 THEN Pair(Leaf(Head(values)), Tail(values))
  ELSE LET x == Node_from(depth - 1, values)
           y == Node_from(depth - 1, x.second)
           z == Node_from(depth - 1, y.second)
       IN Pair(Branch(3 * Node_size(x.first), x.first, y.first, z.first),
               z.second)

\* n successive calls of Node::from: (the nodes in the order they were made,
\* the values left).
RECURSIVE Nodes_from(_, _, _)
Nodes_from(n, depth, values) ==
  IF n = 0 THEN Pair(<<>>, values)
  ELSE LET x == Node_from(depth, values)
           r == Nodes_from(n - 1, depth, x.second)
       IN Pair(<<x.first>> \o r.first, r.second)

\* Fault: the middle tree is built one node short.
Middle_count_short(count) == (count + 2) \div 3 - 3

\* The number of nodes Tree::from hands to the middle tree of count > 8
\* nodes: those left of the 3 in front and the 1 to 3 at the back, by threes.
Middle_count(count) == (count + 2) \div 3 - 2

\* Fault: a multiple of 3 leaves the suffix two nodes.
Suffix_count_short(count) == IF count % 3 = 0 THEN 2 ELSE count % 3

\* The number of nodes Tree::from gives the suffix digit of count > 8 nodes
\* (switch(count % 3): case 0 makes three).
Suffix_count(count) == IF count % 3 = 0 THEN 3 ELSE count % 3

\* Tree::from(count, depth, values): (tree, the values left).
RECURSIVE Tree_from(_, _, _)
Tree_from(count, depth, values) ==
  IF count = 0 THEN Pair(Empty, values)
  ELSE IF count <= 8
  THEN LET made == Nodes_from(count, depth, values)
           \* nodes[count-1] is made first, nodes[0] last
           nodes(i) == made.first[count - i]
           size == Node_size(nodes(0))
           tree ==
             CASE count = 1 -> Single(nodes(0))
               [] count = 2 ->
                    Deep(2 * size,
                         Digit(1 * size, 1, nodes(1), Null, Null, Null), Empty,
                         Digit(1 * size, 1, nodes(0), Null, Null, Null))
               [] count = 3 ->
                    Deep(3 * size,
                         Digit(1 * size, 1, nodes(2), Null, Null, Null), Empty,
                         Digit(2 * size, 2, nodes(1), nodes(0), Null, Null))
               [] count = 4 ->
                    Deep(4 * size,
                         Digit(2 * size, 2, nodes(3), nodes(2), Null, Null), Empty,
                         Digit(2 * size, 2, nodes(1), nodes(0), Null, Null))
               [] count = 5 ->
                    Deep(5 * size,
                         Digit(2 * size, 2, nodes(4), nodes(3), Null, Null), Empty,
                         Digit(3 * size, 3, nodes(2), nodes(1), nodes(0), Null))
               [] count = 6 ->
                    Deep(6 * size,
                         Digit(3 * size, 3, nodes(5), nodes(4), nodes(3), Null),
                         Empty,
                         Digit(3 * size, 3, nodes(2), nodes(1), nodes(0), Null))
               [] count = 7 ->
                    Deep(7 * size,
                         Digit(3 * size, 3, nodes(6), nodes(5), nodes(4), Null),
                         Empty,
                         Digit(4 * size, 4, nodes(3), nodes(2), nodes(1), nodes(0)))
               [] count = 8 ->
                    Deep(8 * size,
                         Digit(4 * size, 4, nodes(7), nodes(6), nodes(5), nodes(4)),
                         Empty,
                         Digit(4 * size, 4, nodes(3), nodes(2), nodes(1), nodes(0)))
       IN Pair(tree, made.second)
  ELSE LET l == Nodes_from(3, depth, values)
           ldigit == Digit(3 * Node_size(l.first[1]), 3,
                           l.first[1], l.first[2], l.first[3], Null)
           middle == Tree_from(Middle_count(count), depth + 1, l.second)
           rcount == Suffix_count(count)
           r == Nodes_from(rcount, depth, middle.second)
           rdigit == Digit_from_array(rcount, r.first)
       IN Pair(Deep3(ldigit, middle.first, rdigit), r.second)

\* ------------------------------------------------------- Sequence facade

\* A call's outcome: an exception, or the value and the sequences returned.
Raise(what) == [err |-> what]

\* An element returned.
ReturnValue(val) == [err |-> "", val |-> val]

\* A sequence returned.
ReturnSeq(tree) == [err |-> "", out |-> <<tree>>]

\* An element and the sequence(s) around it returned.
Return(val, out) == [err |-> "", val |-> val, out |-> out]

\* Sequence(size, Iterator): the bulk constructor over a list of values.
Seq_from(values) == Tree_from(Len(values), 0, values).first

Seq_size(s) == Tree_size(s)

Seq_push_front(s, value) == Tree_push_front(s, Leaf(value))

Seq_push_back(s, value) == Tree_push_back(s, Leaf(value))

Seq_front(s) ==
  CASE s.k = "E" -> Raise("out_of_range")
    [] s.k = "S" -> ReturnValue(s.node.value)
    [] s.k = "D" -> ReturnValue(s.left.items[1].value)

Seq_back(s) ==
  CASE s.k = "E" -> Raise("out_of_range")
    [] s.k = "S" -> ReturnValue(s.node.value)
    [] s.k = "D" -> ReturnValue(Digit_back(s.right).value)

Seq_view_front(s) ==
  IF s.k = "E" THEN Raise("out_of_range")
  ELSE LET v == Tree_view_front(s)
       IN Return(v.first.value, <<v.second>>)

Seq_view_back(s) ==
  IF s.k = "E" THEN Raise("out_of_range")
  ELSE LET v == Tree_view_back(s)
       IN Return(v.second.value, <<v.first>>)

\* Sequence::at(size_t index)
Seq_at(s, index) ==
  IF index >= Seq_size(s) THEN Raise("out_of_range")
  ELSE ReturnValue(Tree_get(s, index))

Seq_set(s, index, value) ==
  IF index >= Seq_size(s) THEN Raise("out_of_range")
  ELSE ReturnSeq(Tree_set(s, index, value))

Seq_insert(s, index, value) ==
  IF index >= Seq_size(s) THEN Raise("out_of_range")
  ELSE ReturnSeq(Tree_insert(s, index, value))

Seq_erase(s, index) ==
  IF index >= Seq_size(s) THEN Raise("out_of_range")
  ELSE LET r == Tree_erase(s, index)
       IN IF ~r.first THEN ReturnSeq(Empty)
          ELSE ReturnSeq(r.second)

Seq_append(s, that) == Tree_append(s, that)

Seq_split(s, index) ==
  IF index >= Seq_size(s) THEN Raise("out_of_range")
  ELSE LET r == Tree_split(s, index)
       IN Return(r.node.value, <<r.ltree, r.rtree>>)

\* Sequence::splitat(size_t index): (left, right)
Seq_splitat(s, index) ==
  IF index >= Seq_size(s) THEN <<s, Empty>>
  ELSE LET r == Seq_split(s, index)
       IN <<r.out[1], Seq_push_front(r.out[2], r.val)>>

Seq_take_front(s, index) ==
  IF index = 0 THEN Empty
  ELSE IF index >= Seq_size(s) THEN s
  ELSE Tree_take_front(s, index).first

Min(a, b) == IF a < b THEN a ELSE b

\* Fault: drop_back without the std::min, so that size - index wraps around
\* to a large size_t when index > size.
Seq_drop_back_unclamped(s, index) ==
  Seq_take_front(s, IF index > Seq_size(s) THEN Seq_size(s)
                    ELSE Seq_size(s) - index)

Seq_drop_back(s, index) ==
  Seq_take_front(s, Seq_size(s) - Min(Seq_size(s), index))

Seq_take_back(s, index) ==
  IF index = 0 THEN Empty
  ELSE IF index >= Seq_size(s) THEN s
  ELSE Tree_take_back(s, index).second

Seq_drop_front(s, index) ==
  Seq_take_back(s, Seq_size(s) - Min(Seq_size(s), index))

\* Fault: the slice drops before it takes.
Seq_at_slice_drop_first(s, left, right) ==
  Seq_take_front(Seq_drop_front(s, left), right)

\* Sequence::at(size_t left, size_t right): the three shortcut statements
\* have no return, so the last statement always computes the result.
Seq_at_slice(s, left, right) ==
  Seq_drop_front(Seq_take_front(s, right), left)

Seq_reverse(s) == Tree_reverse(s)

\* The loop of Sequence::repeat: result and tree after the remaining bits of
\* times are consumed.
RECURSIVE repeat_loop(_, _, _)
repeat_loop(times, result, tree) ==
  LET result1 == IF times % 2 = 1 THEN Tree_append(tree, result) ELSE result
  IN IF times \div 2 = 0 THEN result1
     ELSE repeat_loop(times \div 2, result1, Tree_append(tree, tree))

\* Fault: the tree is doubled once before the loop looks at the first bit.
Seq_repeat_doubled(s, times) ==
  IF times = 0 THEN Empty ELSE repeat_loop(times, Empty, Tree_append(s, s))

\* Sequence::repeat
Seq_repeat(s, times) ==
  IF times = 0 THEN Empty ELSE repeat_loop(times, Empty, s)

\* Sequence(left, right, std::input_iterator_tag): one push_back per value.
RECURSIVE Seq_from_input(_, _)
Seq_from_input(tree, values) ==
  IF values = <<>> THEN tree
  ELSE Seq_from_input(Tree_push_back(tree, Leaf(Head(values))), Tail(values))

\* ---------------------------------------------------------------- iterator

\* Fault: the reverse iterator pushes the frames in the forward order.
Frames_unflipped(Reverse, head) ==
  CASE head.k = "B" ->
         <<head.items[1], head.items[2]>>
           \o (IF head.items[3] = Null THEN <<>> ELSE <<head.items[3]>>)
    [] head.k = "digit" -> SubSeq(head.items, 1, head.order)
    [] head.k = "E" -> <<>>
    [] head.k = "S" -> <<head.node>>
    [] head.k = "D" -> <<head.left, head.middle, head.right>>

\* The frames a Branch, a Digit or a Tree is replaced by on the stack, the
\* one on top first.
Frames(Reverse, head) ==
  LET forward ==
        CASE head.k = "B" ->
               <<head.items[1], head.items[2]>>
                 \o (IF head.items[3] = Null THEN <<>> ELSE <<head.items[3]>>)
          [] head.k = "digit" -> SubSeq(head.items, 1, head.order)
          [] head.k = "E" -> <<>>
          [] head.k = "S" -> <<head.node>>
          [] head.k = "D" -> <<head.left, head.middle, head.right>>
  IN IF Reverse
     THEN [i \in 1 .. Len(forward) |-> forward[Len(forward) + 1 - i]]
     ELSE forward

\* The size a frame reports to check_index.
Frame_size(head) == IF head.k \in {"E", "S", "D"} THEN Tree_size(head)
                    ELSE head.size

\* Iterator<Reverse>::advance(n): the stack after it.
RECURSIVE Iterator_advance(_, _, _)
Iterator_advance(Reverse, stack, n) ==
  IF stack = <<>> THEN stack
  ELSE LET head == Head(stack)
       IN IF head.k = "V"
          THEN IF n = 0 THEN stack
               ELSE Iterator_advance(Reverse, Tail(stack), n - 1)
          ELSE IF n < Frame_size(head)
          THEN Iterator_advance(Reverse, Frames(Reverse, head) \o Tail(stack), n)
          ELSE Iterator_advance(Reverse, Tail(stack), n - Frame_size(head))

\* Iterator(const Sequence&): begin() and rbegin().
Iterator_begin(Reverse, s) == Iterator_advance(Reverse, <<s>>, 0)

\* Iterator(): end() and rend().
Iterator_end == <<>>

\* Iterator::operator++
Iterator_inc(Reverse, stack) == Iterator_advance(Reverse, Tail(stack), 0)

\* Iterator::operator+
Iterator_add(Reverse, stack, n) == Iterator_advance(Reverse, stack, n)

\* Iterator::operator*: the element on top (List::head throws on the empty
\* stack).
Iterator_deref(stack) ==
  IF stack = <<>> THEN Raise("logic_error") ELSE ReturnValue(Head(stack).value)

\* Fault: the increment of the base iterator, one element on, is used.
StepIterator_inc_base(step, stack) == Iterator_inc(FALSE, stack)

\* StepIterator::operator++
StepIterator_inc(step, stack) == Iterator_add(FALSE, stack, step)

\* for(auto& x: xs), vector(begin, end): the elements an iteration from stack
\* to the end iterator passes.
RECURSIVE Iterator_collect(_, _)
Iterator_collect(Reverse, stack) ==
  IF stack = Iterator_end THEN <<>>
  ELSE <<Iterator_deref(stack).val>>
         \o Iterator_collect(Reverse, Iterator_inc(Reverse, stack))

\* The count elements Tree::from(count, 0, iter) reads through a
\* StepIterator: each *values followed by ++values.
RECURSIVE StepIterator_read(_, _, _)
StepIterator_read(count, step, stack) ==
  IF count = 0 THEN [err |-> "", list |-> <<>>]
  ELSE LET x == Iterator_deref(stack)
           r == StepIterator_read(count - 1, step, StepIterator_inc(step, stack))
       IN IF x.err # "" THEN [err |-> x.err, list |-> <<>>]
          ELSE IF r.err # "" THEN r
          ELSE [err |-> "", list |-> <<x.val>> \o r.list]

\* ------------------------------------------------------------------- hash

\* 0x9e3779b9 = 40503 * 2^16 + 31161, in a word of SizeBits >= 16 bits.
Golden == (40503 % (SizeMod \div 65536)) * 65536 + 31161

\* std::hash<int>: the value converted to size_t.
std_hash(value) == value % SizeMod

\* Fault: the term seed >> 2 is left out.
hash_combine_no_shift(seed, value) ==
  (std_hash(value) + Golden + ((seed * 64) % SizeMod)) % SizeMod

\* hash_combine(seed, value), in words of SizeBits bits.
hash_combine(seed, value) ==
  (std_hash(value) + Golden + ((seed * 64) % SizeMod) + (seed \div 4))
    % SizeMod

\* The loop of HashIterable::operator(): seed after the elements from the
\* iterator's position to the end.
RECURSIVE HashIterable_loop(_, _)
HashIterable_loop(seed, stack) ==
  IF stack = Iterator_end THEN seed
  ELSE HashIterable_loop(hash_combine(seed, Iterator_deref(stack).val),
                         Iterator_inc(FALSE, stack))

\* std::hash<Sequence>: HashIterable over begin() .. end().
HashIterable(s) == HashIterable_loop(Golden, Iterator_begin(FALSE, s))

\* ------------------------------------------------------------ step slices

\* A Py_ssize_t passed for a size_t parameter: the value modulo the word.
to_size_t(i) == i % SizeMod

\* Fault: an index out of range is clamped as for a forward step whatever
\* the sign of the step.
adjust_bound_forward(sign, back, length, i) ==
  IF sign /\ i < 0
  THEN IF i + length < 0 THEN 0 ELSE i + length
  ELSE IF i >= length THEN length
  ELSE i

\* What adjust_index(length, start, stop, step) makes of start, and in the
\* same way of stop: a negative index counts from the end, and an index out
\* of range is clamped; back tells that T is signed and step negative.
adjust_bound(sign, back, length, i) ==
  IF sign /\ i < 0
  THEN IF i + length < 0
       THEN (IF back THEN 0 - 1 ELSE 0)
       ELSE i + length
  ELSE IF i >= length
  THEN (IF back THEN length - 1 ELSE length)
  ELSE i

\* adjust_index(length, start, stop, step) of _utility.hpp, sign telling
\* whether T is signed: the count returned and length, start, stop and step
\* as the call leaves them in the caller, or an exception.
adjust_index_slice(sign, length, start, stop, step) ==
  IF step = 0 THEN Raise("out_of_range")
  ELSE
    LET back == sign /\ step < 0
        start1 == adjust_bound(sign, back, length, start)
        stop1 == adjust_bound(sign, back, length, stop)
        count == IF back
                 THEN IF stop1 < start1
                      THEN (start1 - stop1 - 1) \div (0 - step) + 1
                      ELSE 0
                 ELSE IF start1 < stop1
                 THEN (stop1 - start1 - 1) \div step + 1
                 ELSE 0
    IN IF back
       THEN [err |-> "", count |-> count, length |-> length,
             start |-> start1 + (count - 1) * step,
             stop |-> start1 + 1, step |-> 0 - step]
       ELSE [err |-> "", count |-> count, length |-> length,
             start |-> start1, stop |-> stop1, step |-> step]

\* Sequence::at(left, right, step)
Seq_at_step(s, left, right, step) ==
  LET a == adjust_index_slice(FALSE, Seq_size(s), left, right, step)
  IN IF a.err # "" THEN a
     ELSE IF a.count = 0 THEN ReturnSeq(Empty)
     ELSE IF a.step = 1 THEN ReturnSeq(Seq_at_slice(s, a.start, a.stop))
     ELSE LET iter == Iterator_begin(FALSE, Seq_drop_front(s, a.start))
              read == StepIterator_read(a.count, a.step, iter)
          IN IF read.err # "" THEN Raise(read.err)
             ELSE ReturnSeq(Tree_from(a.count, 0, read.list).first)

\* Sequence::set(left, right, values)
Seq_set_slice(s, left, right, values) ==
  LET right1 == IF left > right THEN left ELSE right
  IN Seq_append(Seq_append(Seq_take_front(s, left), values),
                Seq_drop_front(s, right1))

\* The while(--count) loop of Sequence::set(left, right, step, values, end),
\* step already decremented and count as it is before the test.
RECURSIVE set_loop(_, _, _, _, _)
set_loop(count, step, keep, rest, values) ==
  IF count - 1 = 0
  THEN IF values # <<>> THEN Raise("out_of_range")
       ELSE ReturnSeq(Tree_append(keep, rest))
  ELSE LET r == Tree_split(rest, step)
       IN IF values = <<>> THEN Raise("out_of_range")
          ELSE set_loop(count - 1, step,
                        Tree_push_back(Tree_append(keep, r.ltree),
                                       Leaf(Head(values))),
                        r.rtree, Tail(values))

\* Fault: the values left over after the last position are not looked at.
Seq_set_step_lenient(s, left, right, step, values) ==
  LET a == adjust_index_slice(FALSE, Seq_size(s), left, right, step)
  IN IF a.err # "" THEN a
     ELSE IF a.step = 1
     THEN ReturnSeq(Seq_set_slice(s, a.start, a.stop,
                                  Seq_from_input(Empty, values)))
     ELSE IF a.count = 0 THEN ReturnSeq(s)
     ELSE LET r == Tree_split(s, a.start)
              used == SubSeq(values, 1, Min(Len(values), a.count))
          IN IF values = <<>> THEN Raise("out_of_range")
             ELSE set_loop(a.count, a.step - 1,
                           Tree_push_back(r.ltree, Leaf(Head(used))),
                           r.rtree, Tail(used))

\* Sequence::set(left, right, step, values, end)
Seq_set_step(s, left, right, step, values) ==
  LET a == adjust_index_slice(FALSE, Seq_size(s), left, right, step)
  IN IF a.err # "" THEN a
     ELSE IF a.step = 1
     THEN ReturnSeq(Seq_set_slice(s, a.start, a.stop,
                                  Seq_from_input(Empty, values)))
     ELSE IF a.count = 0 THEN ReturnSeq(s)
     ELSE LET r == Tree_split(s, a.start)
          IN IF values = <<>> THEN Raise("out_of_range")
             ELSE set_loop(a.count, a.step - 1,
                           Tree_push_back(r.ltree, Leaf(Head(values))),
                           r.rtree, Tail(values))

\* Fault: the element at right is erased as well.
Seq_erase_slice_inclusive(s, left, right) ==
  IF left >= right THEN s
  ELSE Seq_append(Seq_take_front(s, left), Seq_drop_front(s, right + 1))

\* Sequence::erase(left, right)
Seq_erase_slice(s, left, right) ==
  IF left >= right THEN s
  ELSE IF left = 0 THEN Seq_drop_front(s, right)
  ELSE IF right >= Seq_size(s) THEN Seq_take_front(s, left)
  ELSE Seq_append(Seq_take_front(s, left), Seq_drop_front(s, right))

\* The while(--count) loop of Sequence::erase(left, right, step), step
\* already decremented and count as it is before the test.
RECURSIVE erase_loop(_, _, _, _)
erase_loop(count, step, keep, rest) ==
  IF count - 1 = 0 THEN Tree_append(keep, rest)
  ELSE LET r == Tree_split(rest, step)
       IN erase_loop(count - 1, step, Tree_append(keep, r.ltree), r.rtree)

\* Sequence::erase(left, right, step)
Seq_erase_step(s, left, right, step) ==
  LET a == adjust_index_slice(FALSE, Seq_size(s), left, right, step)
  IN IF a.err # "" THEN a
     ELSE IF a.count = 0 THEN ReturnSeq(s)
     ELSE IF a.step = 1 THEN ReturnSeq(Seq_erase_slice(s, a.start, a.stop))
     ELSE LET r == Tree_split(s, a.start)
          IN ReturnSeq(erase_loop(a.count, a.step - 1, r.ltree, r.rtree))

\* -------------------------------------------------------- Python binding

\* Fault: adjust_index as it is for an unsigned T, where no index counts
\* from the end.
adjust_index_unsigned(length, index) ==
  IF index < 0 \/ index >= length THEN Raise("out_of_range")
  ELSE ReturnValue(index)

\* adjust_index(length, index) on Py_ssize_t: the index from the front, or
\* an exception.
adjust_index(length, index) ==
  IF index < 0
  THEN IF index + length < 0 THEN Raise("out_of_range")
       ELSE ReturnValue(index + length)
  ELSE IF index >= length THEN Raise("out_of_range")
  ELSE ReturnValue(index)

\* PSequence.__getitem__(index: int)
Py_getitem(s, index) ==
  LET a == adjust_index(Seq_size(s), index)
  IN IF a.err # "" THEN a ELSE Seq_at(s, a.val)

\* PSequence.set(index: int, value)
Py_set(s, index, value) ==
  LET a == adjust_index(Seq_size(s), index)
  IN IF a.err # "" THEN a ELSE Seq_set(s, a.val, value)

\* Fault: insert without the push_front line: an index still negative after
\* the adjustment compares as a large unsigned number and appends.
Py_insert_no_prepend(s, index, value) ==
  LET index1 == IF index < 0 THEN index + Seq_size(s) ELSE index
  IN IF index1 < 0 \/ index1 >= Seq_size(s)
     THEN ReturnSeq(Seq_push_back(s, value))
     ELSE Seq_insert(s, index1, value)

\* PSequence.insert(index, value)
Py_insert(s, index, value) ==
  LET index1 == IF index < 0 THEN index + Seq_size(s) ELSE index
  IN IF index1 < 0 THEN ReturnSeq(Seq_push_front(s, value))
     ELSE IF index1 >= Seq_size(s)
     THEN ReturnSeq(Seq_push_back(s, value))
     ELSE Seq_insert(s, index1, value)

\* PSequence.extendright(values) / extendleft(values)
Py_extendright(s, values) == Seq_append(s, Seq_from(values))

Py_extendleft(s, values) == Seq_append(Seq_from(values), s)

\* PSequence.__mul__(times)
Py_mul(s, times) == Seq_repeat(s, IF times < 0 THEN 0 ELSE times)

\* nb::slice::compute(size): PySlice_Unpack and PySlice_AdjustIndices on
\* signed words.  A slice component is <<>> for None and <<i>> for i.
slice_compute(length, start, stop, step) ==
  LET step1 == IF step = <<>> THEN 1 ELSE step[1]
      start1 == IF start # <<>> THEN start[1]
                ELSE IF step1 < 0 THEN SSizeMax ELSE 0
      stop1 == IF stop # <<>> THEN stop[1]
               ELSE IF step1 < 0 THEN 0 - SSizeMax - 1 ELSE SSizeMax
      clamp(i) == IF i < 0
                  THEN IF i + length < 0
                       THEN (IF step1 < 0 THEN 0 - 1 ELSE 0)
                       ELSE i + length
                  ELSE IF i >= length
                  THEN (IF step1 < 0 THEN length - 1 ELSE length)
                  ELSE i
      start2 == clamp(start1)
      stop2 == clamp(stop1)
      count == IF step1 < 0
               THEN IF stop2 < start2
                    THEN (start2 - stop2 - 1) \div (0 - step1) + 1
                    ELSE 0
               ELSE IF start2 < stop2
               THEN (stop2 - start2 - 1) \div step1 + 1
               ELSE 0
  IN IF step1 = 0 THEN Raise("ValueError")
     ELSE [err |-> "", start |-> start2, stop |-> stop2, step |-> step1,
           count |-> count]

\* PSequence.__getitem__(index: slice): start, stop and step are Py_ssize_t
\* and Sequence::at takes them as size_t.
Py_getitem_slice(s, start, stop, step) ==
  LET c == slice_compute(Seq_size(s), start, stop, step)
  IN IF c.err # "" THEN c
     ELSE Seq_at_step(s, to_size_t(c.start), to_size_t(c.stop),
                      to_size_t(c.step))

\* for(auto x: seq) if(x.equal(value)) return index; else ++index;
RECURSIVE index_loop(_, _, _)
index_loop(stack, value, index) ==
  IF stack = Iterator_end THEN Raise("ValueError")
  ELSE IF Iterator_deref(stack).val = value THEN ReturnValue(index)
  ELSE index_loop(Iterator_inc(FALSE, stack), value, index + 1)

\* PSequence.index(value, start, stop): start and stop are Py_ssize_t, stop
\* is <<>> for None and <<i>> for i.
Py_index(s, value, start, stop) ==
  LET shifted == start + Seq_size(s)
      start1 == IF start >= 0 THEN start
                ELSE IF shifted > 0 THEN shifted ELSE 0
      dropped == Seq_drop_front(s, start1)
      taken == IF stop = <<>> THEN dropped
               ELSE Seq_take_front(dropped,
                      (IF start1 > stop[1] THEN start1 ELSE stop[1]) - start1)
  IN index_loop(Iterator_begin(FALSE, taken), value, 0)

\* Fault: the loop splits the remainder at the index itself, not at the
\* index less what the earlier splits took away.
view_offset_whole(idx, last) == idx

\* seq.split(idx - last - 1): the position of idx in what is right of last.
view_offset(idx, last) == idx - last - 1

\* The loop of PSequence.view over its arguments: size is the size of the
\* sequence the call was made on, s what is right of the last split.
RECURSIVE view_loop(_, _, _, _, _)
view_loop(size, s, last, args, views) ==
  IF args = <<>> THEN [err |-> "", views |-> views \o <<s>>]
  ELSE LET a == adjust_index(size, Head(args))
       IN IF a.err # "" THEN a
          ELSE IF last >= a.val THEN Raise("index_error")
          ELSE LET r == Seq_split(s, view_offset(a.val, last))
               IN IF r.err # "" THEN r
                  ELSE view_loop(size, r.out[2], a.val, Tail(args),
                                 views \o <<r.out[1], r.val>>)

\* PSequence.view(*args): the list of chunks and picked elements.
Py_view(s, args) == view_loop(Seq_size(s), s, 0 - 1, args, <<>>)

\* seq.erase(index), where at is what finding the index returned or raised.
Erase_at(s, at) == IF at.err # "" THEN at ELSE Seq_erase(s, at.val)

\* PSequence.delete(index: int)
Py_delete(s, index) == Erase_at(s, adjust_index(Seq_size(s), index))

\* PSequence.remove(value)
Py_remove(s, value) == Erase_at(s, Py_index(s, value, 0, <<>>))

\* PSequence.mset(index, value, index, value, ...): each index is adjusted
\* against, and each value set in, the sequence the pairs before it made.
RECURSIVE Py_mset(_, _)
Py_mset(s, args) ==
  IF args = <<>> THEN ReturnSeq(s)
  ELSE IF Len(args) = 1 THEN Raise("index_error")
  ELSE LET a == adjust_index(Seq_size(s), args[1])
           r == Seq_set(s, a.val, args[2])
       IN IF a.err # "" THEN a
          ELSE IF r.err # "" THEN r
          ELSE Py_mset(r.out[1], Tail(Tail(args)))

\* ---------------------------------------------------------------- evolver

\* struct Evolver { Sequence seq; } and PSequence.evolver()
Evolver(s) == [seq |-> s]

\* A method of an evolver ended: the evolvers as they are then, and what the
\* method returned (nothing, for the caller's purposes) or raised.
Done(evos, result) == [evos |-> evos, ret |-> result]

ReturnNone == [err |-> ""]

\* Fault: the evolvers made from one sequence share one handle.
Evolver_assign_shared(evos, e, s) == [x \in DOMAIN evos |-> Evolver(s)]

\* evo.seq = ...
Evolver_assign(evos, e, s) == [evos EXCEPT ![e] = Evolver(s)]

\* The mutable version of a PSequence method:
\* evo.seq = nb::cast<Sequence>(func(nb::cast(evo.seq), *args, **kwargs)),
\* where r is what func, the PSequence method, returned or raised.  An
\* exception of func leaves the function before the assignment.
Evolver_mutate(evos, e, r) ==
  IF r.err # "" THEN Done(evos, r)
  ELSE Done(Evolver_assign(evos, e, r.out[1]), ReturnNone)

\* PSequenceEvolver.clear
Evolver_clear(evos, e) == Done(Evolver_assign(evos, e, Empty), ReturnNone)

\* Fault: pop deletes the element from a copy of the evolver.
Evolver_pop_from_copy(evos, e, value, deleted) ==
  IF value.err # "" THEN Done(evos, value)
  ELSE IF Evolver_mutate(evos, e, deleted).ret.err # ""
  THEN Done(evos, deleted)
  ELSE Done(evos, ReturnValue(value.val))

\* PSequenceEvolver.pop(index): value is what __getitem__(index) of the
\* held sequence returns or raises; then __delitem__(index) of the evolver,
\* the mutable version of delete, of which deleted is what delete returns
\* or raises.
Evolver_pop(evos, e, value, deleted) ==
  IF value.err # "" THEN Done(evos, value)
  ELSE IF Evolver_mutate(evos, e, deleted).ret.err # ""
  THEN Evolver_mutate(evos, e, deleted)
  ELSE Done(Evolver_mutate(evos, e, deleted).evos, ReturnValue(value.val))

\* PSequenceEvolver.persistent
Evolver_persistent(evos, e) == evos[e].seq

\* What a sequence holds, front to back (tolist).
ToList(s) == Tree_list(s)

\* ------------------------------------------------------------ the caller

\* seq:  the sequence value the caller holds.
\* call: the operation last called on seq, with its arguments; "psequence"
\*       when the caller has just constructed or copied seq.
\* ret:  what that call returned or raised.
\* evolvers: the evolvers created from seq, each holding a sequence.
\* history:  for each evolver, the list its own calls make of the list of
\*           seq, and the snapshot a persistent() last returned.
\* map:      the sorted map the caller holds (its root node).
VARIABLES seq, call, ret, evolvers, history, map

vars == <<seq, call, ret, evolvers, history, map>>

\* What a caller of sequences alone never touches.
others == <<evolvers, history, map>>

\* No evolver has been created and the map is empty.
Alone == evolvers = <<>> /\ history = <<>> /\ map = Null

Call(op, args) == [op |-> op, args |-> args]

\* The indices a caller passes for a sequence of n elements: every valid
\* one and the two nearest invalid ones on each side.
PyIndices(n) == (0 - n - 2) .. (n + 1)

\* The same for an unsigned (size_t) parameter.
Indices(n) == 0 .. (n + 1)

\* The iterables handed over as operands: for each length one list over
\* Values, a prefix of the Thue-Morse word (which has no period).
RECURSIVE Word(_)
Word(i) == IF i = 0 THEN 0 ELSE (Word(i \div 2) + (i % 2)) % 2

Operand(n) == [i \in 1 .. n |-> Word(i - 1) + 1]

Operands == {Operand(n) : n \in 0 .. MaxOperand}

\* The factors a caller multiplies a sequence by.
Repeats == (0 - 1) .. MaxRepeat


Init ==
  /\ seq = Empty
  /\ call = Call("psequence", <<>>)
  /\ ret = ReturnSeq(Empty)
  /\ Alone

\* The caller has a sequence at hand and no call under way.
Idle == call.op = "psequence"

\* Fault: the call works on the caller's sequence in place.
InvokeInPlace(op, args, result) ==
  /\ Idle
  /\ call' = Call(op, args)
  /\ ret' = result
  /\ seq' = IF "out" \in DOMAIN result THEN result.out[1] ELSE seq
  /\ UNCHANGED others

\* A const member function of seq is called: its result is handed back and
\* the sequence it was called on stays as it is.
Invoke(op, args, result) ==
  /\ Idle
  /\ call' = Call(op, args)
  /\ ret' = result
  /\ UNCHANGED <<seq, others>>

PushFront(v) == Invoke("push_front", <<v>>, ReturnSeq(Seq_push_front(seq, v)))

PushBack(v) == Invoke("push_back", <<v>>, ReturnSeq(Seq_push_back(seq, v)))

Front == Invoke("front", <<>>, Seq_front(seq))

Back == Invoke("back", <<>>, Seq_back(seq))

ViewFront == Invoke("view_front", <<>>, Seq_view_front(seq))

ViewBack == Invoke("view_back", <<>>, Seq_view_back(seq))

GetItem(i) == Invoke("get", <<i>>, Py_getitem(seq, i))

Set(i, v) == Invoke("set", <<i, v>>, Py_set(seq, i, v))

\* PSequence.insert of the binding, and Sequence::insert under it.
Insert(i, v) == Invoke("insert", <<i, v>>, Py_insert(seq, i, v))

CoreInsert(i, v) == Invoke("Sequence::insert", <<i, v>>, Seq_insert(seq, i, v))

Erase(i) == Invoke("erase", <<i>>, Seq_erase(seq, i))

ExtendRight(ys) ==
  Invoke("extendright", <<ys>>, ReturnSeq(Py_extendright(seq, ys)))

ExtendLeft(ys) ==
  Invoke("extendleft", <<ys>>, ReturnSeq(Py_extendleft(seq, ys)))

Split(i) == Invoke("split", <<i>>, Seq_split(seq, i))

SplitAt(i) ==
  Invoke("splitat", <<i>>, [err |-> "", out |-> Seq_splitat(seq, i)])

TakeFront(i) == Invoke("take_front", <<i>>, ReturnSeq(Seq_take_front(seq, i)))

DropFront(i) == Invoke("drop_front", <<i>>, ReturnSeq(Seq_drop_front(seq, i)))

TakeBack(i) == Invoke("take_back", <<i>>, ReturnSeq(Seq_take_back(seq, i)))

DropBack(i) == Invoke("drop_back", <<i>>, ReturnSeq(Seq_drop_back(seq, i)))

Slice(l, r) == Invoke("slice", <<l, r>>, ReturnSeq(Seq_at_slice(seq, l, r)))

Reverse == Invoke("reverse", <<>>, ReturnSeq(Seq_reverse(seq)))

\* PSequence.__hash__
Hash == Invoke("hash", <<>>, ReturnValue(HashIterable(seq)))

Repeat(k) == Invoke("repeat", <<k>>, ReturnSeq(Py_mul(seq, k)))

\* The caller goes on with a sequence the last call returned (a copy of the
\* handle, Sequence(const Sequence&)).
Keep(j) ==
  /\ ~Idle
  /\ ret.err = ""
  /\ "out" \in DOMAIN ret
  /\ j \in DOMAIN ret.out
  /\ Seq_size(ret.out[j]) <= MaxSize
  /\ seq' = ret.out[j]
  /\ call' = Call("psequence", <<>>)
  /\ ret' = ReturnSeq(ret.out[j])
  /\ UNCHANGED others

\* The caller lets the result go and goes on with the sequence it had.
Discard ==
  /\ ~Idle
  /\ call' = Call("psequence", <<>>)
  /\ ret' = ReturnSeq(seq)
  /\ UNCHANGED <<seq, others>>

Next ==
  \/ Idle /\ \E v \in Values : PushFront(v)
  \/ Idle /\ \E v \in Values : PushBack(v)
  \/ Idle /\ Front
  \/ Idle /\ Back
  \/ Idle /\ ViewFront
  \/ Idle /\ ViewBack
  \/ Idle /\ \E i \in PyIndices(Seq_size(seq)) : GetItem(i)
  \/ Idle /\ \E i \in PyIndices(Seq_size(seq)) : \E v \in Values : Set(i, v)
  \/ Idle /\ \E i \in PyIndices(Seq_size(seq)) : \E v \in Values : Insert(i, v)
  \/ Idle /\ \E i \in Indices(Seq_size(seq)) : \E v \in Values : CoreInsert(i, v)
  \/ Idle /\ \E i \in Indices(Seq_size(seq)) : Erase(i)
  \/ Idle /\ \E ys \in Operands : ExtendRight(ys)
  \/ Idle /\ \E ys \in Operands : ExtendLeft(ys)
  \/ Idle /\ \E i \in Indices(Seq_size(seq)) : Split(i)
  \/ Idle /\ \E i \in Indices(Seq_size(seq)) : SplitAt(i)
  \/ Idle /\ \E i \in Indices(Seq_size(seq)) : TakeFront(i)
  \/ Idle /\ \E i \in Indices(Seq_size(seq)) : DropFront(i)
  \/ Idle /\ \E i \in Indices(Seq_size(seq)) : TakeBack(i)
  \/ Idle /\ \E i \in Indices(Seq_size(seq)) : DropBack(i)
  \/ Idle /\ \E l, r \in Indices(Seq_size(seq)) : Slice(l, r)
  \/ Idle /\ Reverse
  \/ Idle /\ \E k \in Repeats : Repeat(k)
  \/ Idle /\ Hash
  \/ \E j \in 1 .. 2 : Keep(j)
  \/ Discard

Spec == Init /\ [][Next]_vars

\* ------------------------------------------- the caller of deep sequences

\* psequence(iterable): the caller starts from a sequence built in bulk.
InitDeep ==
  /\ seq \in {Seq_from(Operand(n)) : n \in 0 .. MaxDeep}
  /\ call = Call("psequence", <<>>)
  /\ ret = ReturnSeq(seq)
  /\ Alone

\* The caller goes on with the sequence returned when it is small, or has
\* grown and is near the largest size.
KeepDeep ==
  /\ ~Idle
  /\ ret.err = ""
  /\ "out" \in DOMAIN ret
  /\ \/ Seq_size(ret.out[1]) <= MaxSize
     \/ /\ Seq_size(ret.out[1]) > Seq_size(seq)
        /\ Seq_size(ret.out[1]) \in (MaxDeep - DeepSpan) .. MaxDeep
  /\ seq' = ret.out[1]
  /\ call' = Call("psequence", <<>>)
  /\ ret' = ReturnSeq(ret.out[1])
  /\ UNCHANGED others

\* std::vector(begin(), end()) and std::vector(rbegin(), rend()): the
\* iterator starts at the front (at the back when backward), and each turn of
\* the loop appends *it to the list and increments it, until it equals the
\* end iterator.
Collect(backward) ==
  Invoke("collect", <<backward>>,
         [err |-> "", it |-> Iterator_begin(backward, seq), list |-> <<>>])

CollectNext ==
  /\ call.op = "collect"
  /\ ret.it # Iterator_end
  /\ ret' = [ret EXCEPT !.it = Iterator_inc(call.args[1], ret.it),
                        !.list = ret.list \o <<Iterator_deref(ret.it).val>>]
  /\ UNCHANGED <<seq, call, others>>

\* *(begin() + n)
IteratorAdd(n) ==
  LET it == Iterator_add(FALSE, Iterator_begin(FALSE, seq), n)
      x == Iterator_deref(it)
  IN Invoke("begin+", <<n>>,
            IF x.err # "" THEN [err |-> x.err, it |-> it]
            ELSE [err |-> "", val |-> x.val, it |-> it])

NextDeep ==
  \/ Idle /\ \E v \in Values : PushFront(v)
  \/ Idle /\ \E v \in Values : PushBack(v)
  \/ Idle /\ ViewFront
  \/ Idle /\ ViewBack
  \/ Idle /\ Reverse
  \/ Idle /\ \E backward \in BOOLEAN : Collect(backward)
  \/ CollectNext
  \/ Idle /\ \E n \in Indices(Seq_size(seq)) : IteratorAdd(n)
  \/ KeepDeep
  \/ Discard

SpecDeep == InitDeep /\ [][NextDeep]_vars

\* ------------------------- the caller of slices and of bulk construction

\* The sequence of 1 .. n, built in bulk and built by n push_backs.
Range(n) == [i \in 1 .. n |-> i]

Ranges ==
  {Seq_from(Range(n)) : n \in 0 .. MaxSlice}
    \cup {Seq_from_input(Empty, Range(n)) : n \in 0 .. MaxSlice}

\* k replacement values, none of them an element of a Range.
Fresh(k) == [i \in 1 .. k |-> 100 + i]

\* The components of a slice object for a sequence of n elements.
SliceIndices(n) == {<<>>} \cup {<<i>> : i \in PyIndices(n)}

SliceSteps == {<<>>} \cup {<<k>> : k \in (0 - MaxStep) .. MaxStep}

InitSlice ==
  /\ seq \in Ranges
  /\ call = Call("psequence", <<>>)
  /\ ret = ReturnSeq(seq)
  /\ Alone

AtStep(l, r, step) ==
  Invoke("at_step", <<l, r, step>>, Seq_at_step(seq, l, r, step))

EraseStep(l, r, step) ==
  Invoke("erase_step", <<l, r, step>>, Seq_erase_step(seq, l, r, step))

SetStep(l, r, step, values) ==
  Invoke("set_step", <<l, r, step, values>>,
         Seq_set_step(seq, l, r, step, values))

GetItemSlice(start, stop, step) ==
  Invoke("getitem_slice", <<start, stop, step>>,
         Py_getitem_slice(seq, start, stop, step))

\* adjust_index on signed words, for the length of the sequence at hand.
AdjustIndex(start, stop, step) ==
  Invoke("adjust_index", <<start, stop, step>>,
         adjust_index_slice(TRUE, Seq_size(seq), start, stop, step))

\* psequence(iterable): a sequence is built in bulk from a list over Values,
\* from a list of distinct elements, or from the elements of the sequence
\* at hand.
FromIterable(values) ==
  Invoke("from_iterable", <<values>>, ReturnSeq(Seq_from(values)))

NextSlice ==
  \/ Idle /\ \E l, r, step \in Indices(Seq_size(seq)) : AtStep(l, r, step)
  \/ Idle /\ \E l, r, step \in Indices(Seq_size(seq)) : EraseStep(l, r, step)
  \/ Idle /\ \E l, r, step \in Indices(Seq_size(seq)) :
               \E k \in 0 .. MaxValues : SetStep(l, r, step, Fresh(k))
  \/ Idle /\ \E start, stop \in PyIndices(Seq_size(seq)) :
               \E step \in (0 - MaxStep) .. MaxStep :
                 AdjustIndex(start, stop, step)
  \/ Idle /\ \E start, stop \in SliceIndices(Seq_size(seq)) :
               \E step \in SliceSteps : GetItemSlice(start, stop, step)
  \/ Idle /\ \E n \in 0 .. MaxDeep :
               \E values \in {Operand(n), Range(n)} : FromIterable(values)
  \/ Idle /\ FromIterable(ToList(seq))
  \/ Discard

SpecSlice == InitSlice /\ [][NextSlice]_vars

\* ------------------------------------------ the caller of index and view

\* The sequences of the Thue-Morse word 1 2 2 1 2 1 1 2 ..., in which every
\* value has several positions, built in bulk and built by push_backs.
Words ==
  {Seq_from(Operand(n)) : n \in 0 .. MaxOperand}
    \cup {Seq_from_input(Empty, Operand(n)) : n \in 0 .. MaxOperand}

\* A value no sequence holds.
Absent == Cardinality(Values) + 1

InitBinding ==
  /\ seq \in Words
  /\ call = Call("psequence", <<>>)
  /\ ret = ReturnSeq(seq)
  /\ Alone

Index(v, start, stop) ==
  Invoke("index", <<v, start, stop>>, Py_index(seq, v, start, stop))

\* The argument lists of a view: up to MaxPicks indices.
Picks(n) == UNION {[1 .. k -> PyIndices(n)] : k \in 0 .. MaxPicks}

View(args) == Invoke("view", <<args>>, Py_view(seq, args))

NextBinding ==
  \/ Idle /\ \E v \in Values \cup {Absent} :
               \E start \in PyIndices(Seq_size(seq)) :
                 \E stop \in SliceIndices(Seq_size(seq)) : Index(v, start, stop)
  \/ Idle /\ Seq_size(seq) <= MaxSize
          /\ \E args \in Picks(Seq_size(seq)) : View(args)
  \/ Discard

SpecBinding == InitBinding /\ [][NextBinding]_vars

\* ---------------------------------------------------------------- claims

\* The call under way, its index argument, and the list and size of the
\* sequence it was made on.
Op == call.op

Arg(k) == call.args[k]

Old == ToList(seq)

N == Seq_size(seq)

Ok == ret.err = ""

OutOfRange == ret.err = "out_of_range"

\* The list a returned sequence holds agrees with its cached size.
Holds(s, list) == ToList(s) = list /\ Seq_size(s) = Len(list)

\* list with v put before position i (from 0), and without position i.
Inserted(list, i, v) ==
  SubSeq(list, 1, i) \o <<v>> \o SubSeq(list, i + 1, Len(list))

Erased(list, i) == SubSeq(list, 1, i) \o SubSeq(list, i + 2, Len(list))

C2_Push ==
  /\ Op = "push_front" => Ok /\ Holds(ret.out[1], <<Arg(1)>> \o Old)
  /\ Op = "push_back" => Ok /\ Holds(ret.out[1], Old \o <<Arg(1)>>)
  /\ Op \in {"push_front", "push_back"} => Seq_size(ret.out[1]) = N + 1

C2_Witness ==
  /\ Op = "push_front"
  /\ seq.k = "D"
  /\ seq.left.order = 4
  /\ seq.middle.k = "D"
  /\ seq.middle.left.order = 4
  /\ Holds(ret.out[1], <<Arg(1)>> \o Old)

\* C3: on a sequence that is not empty view_front returns the first element
\* and the sequence of the others, view_back the sequence of all but the
\* last element and the last, front and back the first and the last
\* element; on the empty sequence all four raise out_of_range.
C3_View ==
  /\ Op = "view_front" =>
       IF N = 0 THEN OutOfRange
       ELSE Ok /\ ret.val = Head(Old) /\ Holds(ret.out[1], Tail(Old))
  /\ Op = "view_back" =>
       IF N = 0 THEN OutOfRange
       ELSE Ok /\ ret.val = Old[N] /\ Holds(ret.out[1], SubSeq(Old, 1, N - 1))
  /\ Op = "front" => IF N = 0 THEN OutOfRange ELSE Ok /\ ret.val = Old[1]
  /\ Op = "back" => IF N = 0 THEN OutOfRange ELSE Ok /\ ret.val = Old[N]

C3_Witness ==
  /\ Op = "view_back"
  /\ seq.k = "D"
  /\ seq.right.order = 1
  /\ seq.middle.k # "E"
  /\ Holds(ret.out[1], SubSeq(Old, 1, N - 1))

\* C4: for -n <= i < n, get(i) returns the element at position i mod n and
\* set(i, v) a sequence of the same size with v there and the elements of s
\* everywhere else; for every other i, and so for every i on the empty
\* sequence, both raise.
C4_GetSet ==
  /\ Op = "get" =>
       IF 0 - N <= Arg(1) /\ Arg(1) < N
       THEN Ok /\ ret.val = Old[(Arg(1) % N) + 1]
       ELSE OutOfRange
  /\ Op = "set" =>
       IF 0 - N <= Arg(1) /\ Arg(1) < N
       THEN /\ Ok
            /\ Seq_size(ret.out[1]) = N
            /\ Holds(ret.out[1], [Old EXCEPT ![(Arg(1) % N) + 1] = Arg(2)])
       ELSE OutOfRange

C4_Witness ==
  /\ Op = "set"
  /\ Arg(1) < 0
  /\ Ok
  /\ seq.k = "D"
  /\ seq.middle.k # "E"
  /\ seq.left.size <= Arg(1) + N
  /\ Arg(1) + N < seq.left.size + Seq_size(seq.middle)
  /\ ToList(ret.out[1]) # Old

\* The position insert(i, v) of the binding puts v at: i taken from the end
\* when negative, then clamped to 0 .. n.
Clamped(n, i) ==
  LET j == IF i < 0 THEN i + n ELSE i
  IN IF j < 0 THEN 0 ELSE IF j > n THEN n ELSE j

\* C5: insert(i, v) of the binding takes every integer i and returns the
\* n + 1 elements with v at the clamped position and the elements of s in
\* their order around it (appended for i >= n, prepended for i < -n);
\* Sequence::insert puts v before position i for i < n and raises
\* out_of_range for i >= n.
C5_Insert ==
  /\ Op = "insert" =>
       /\ Ok
       /\ Holds(ret.out[1], Inserted(Old, Clamped(N, Arg(1)), Arg(2)))
       /\ Seq_size(ret.out[1]) = N + 1
       /\ Arg(1) >= N => ToList(ret.out[1]) = Old \o <<Arg(2)>>
       /\ Arg(1) < 0 - N => ToList(ret.out[1]) = <<Arg(2)>> \o Old
  /\ Op = "Sequence::insert" =>
       IF Arg(1) < N
       THEN Ok /\ Holds(ret.out[1], Inserted(Old, Arg(1), Arg(2)))
       ELSE OutOfRange

C5_Witness ==
  /\ Op = "insert"
  /\ Arg(1) < 0
  /\ Arg(1) + N > 0
  /\ seq.k = "D"
  /\ seq.left.order = 4
  /\ Arg(1) + N < 4
  /\ Holds(ret.out[1], Inserted(Old, Arg(1) + N, Arg(2)))

\* C6: for i < n, erase(i) returns the n - 1 other elements in their order,
\* whatever the deletion rebalances (also on the n + 1 elements an insert
\* returned), and s.insert(i, v).erase(i) holds the elements of s again;
\* erase(i) raises out_of_range for i >= n.
C6_Erase ==
  /\ Op = "erase" =>
       IF Arg(1) < N THEN Ok /\ Holds(ret.out[1], Erased(Old, Arg(1)))
       ELSE OutOfRange
  /\ Op = "Sequence::insert" /\ Ok =>
       /\ LET back == Seq_erase(ret.out[1], Arg(1))
          IN back.err = "" /\ Holds(back.out[1], Old)
       /\ \A i \in 0 .. N :
            LET e == Seq_erase(ret.out[1], i)
            IN e.err = "" /\ Holds(e.out[1], Erased(ToList(ret.out[1]), i))

C6_Witness ==
  /\ Op = "erase"
  /\ Arg(1) = 0
  /\ seq.k = "D"
  /\ seq.left.order = 1
  /\ seq.middle.k # "E"
  /\ Holds(ret.out[1], Tail(Old))

\* C7: append concatenates: s.append(t) holds the elements of s followed by
\* those of t; so appending the empty sequence on either side gives the
\* elements of s, and s.append(t).append(u) holds what s.append(t.append(u))
\* holds.
C7_Append ==
  /\ Op = "extendright" =>
       LET t == Seq_from(Arg(1))
       IN /\ Ok
          /\ Holds(ret.out[1], Old \o ToList(t))
          /\ ret.out[1] = Seq_append(seq, t)
          /\ \A u \in {Seq_from(ys) : ys \in Operands} \cup {seq} :
               LET l == Seq_append(ret.out[1], u)
                   r == Seq_append(seq, Seq_append(t, u))
               IN Holds(l, ToList(r)) /\ Holds(r, Old \o ToList(t) \o ToList(u))
  /\ Op = "extendleft" =>
       LET t == Seq_from(Arg(1))
       IN Ok /\ Holds(ret.out[1], ToList(t) \o Old)
  /\ Op \in {"extendright", "extendleft"} /\ Arg(1) = <<>> =>
       Holds(ret.out[1], Old)

C7_Witness ==
  /\ Op = "extendright"
  /\ seq.k = "D"
  /\ seq.right.order = 3
  /\ Len(Arg(1)) = 4
  /\ Holds(ret.out[1], Old \o Arg(1))

\* C8: for i < n, split(i) returns the first i elements, the element at
\* position i and the elements after it, so that left.push_back(v)
\* .append(right) and left.append(right.push_front(v)) both hold the
\* elements of s; split(i) raises out_of_range for i >= n.
C8_Split ==
  Op = "split" =>
    IF Arg(1) < N
    THEN LET left == ret.out[1]
             right == ret.out[2]
         IN /\ Ok
            /\ Holds(left, SubSeq(Old, 1, Arg(1)))
            /\ ret.val = Old[Arg(1) + 1]
            /\ Holds(right, SubSeq(Old, Arg(1) + 2, N))
            /\ Holds(Seq_append(Seq_push_back(left, ret.val), right), Old)
            /\ Holds(Seq_append(left, Seq_push_front(right, ret.val)), Old)
    ELSE OutOfRange

C8_Witness ==
  /\ Op = "split"
  /\ seq.k = "D"
  /\ seq.middle.k # "E"
  /\ seq.left.size <= Arg(1)
  /\ Arg(1) < seq.left.size + Seq_size(seq.middle)
  /\ Holds(ret.out[1], SubSeq(Old, 1, Arg(1)))

\* C9: for every i >= 0, and never with an error, take_front(i) is the
\* first min(i, n) elements, drop_front(i) the elements after those,
\* take_back(i) the last min(i, n) elements, drop_back(i) the elements
\* before those, and splitat(i) is (take_front(i), drop_front(i)).
C9_TakeDrop ==
  LET m == Min(Arg(1), N)
  IN /\ Op = "take_front" => Ok /\ Holds(ret.out[1], SubSeq(Old, 1, m))
     /\ Op = "drop_front" => Ok /\ Holds(ret.out[1], SubSeq(Old, m + 1, N))
     /\ Op = "take_back" => Ok /\ Holds(ret.out[1], SubSeq(Old, N - m + 1, N))
     /\ Op = "drop_back" => Ok /\ Holds(ret.out[1], SubSeq(Old, 1, N - m))
     /\ Op = "splitat" =>
          /\ Ok
          /\ Holds(ret.out[1], ToList(Seq_take_front(seq, Arg(1))))
          /\ Holds(ret.out[2], ToList(Seq_drop_front(seq, Arg(1))))
          /\ ToList(ret.out[1]) \o ToList(ret.out[2]) = Old
          /\ Len(ToList(ret.out[1])) = m

C9_Witness ==
  /\ Op = "take_back"
  /\ seq.k = "D"
  /\ seq.middle.k # "E"
  /\ seq.right.size <= Arg(1)
  /\ Arg(1) < seq.right.size + Seq_size(seq.middle)
  /\ Holds(ret.out[1], SubSeq(Old, N - Arg(1) + 1, N))

\* C10: for l, r >= 0 the slice get(l, r) is take_front(r).drop_front(l):
\* the elements at positions min(l, n) .. min(r, n) - 1 in their order, and
\* the empty sequence whenever l >= r.
C10_Slice ==
  Op = "slice" =>
    /\ Ok
    /\ Holds(ret.out[1],
             ToList(Seq_drop_front(Seq_take_front(seq, Arg(2)), Arg(1))))
    /\ Holds(ret.out[1], SubSeq(Old, Min(Arg(1), N) + 1, Min(Arg(2), N)))
    /\ Arg(1) >= Arg(2) => ret.out[1] = Empty

C10_Witness ==
  /\ Op = "slice"
  /\ 0 < Arg(1)
  /\ Arg(1) < Arg(2)
  /\ Arg(2) < N
  /\ Holds(ret.out[1], SubSeq(Old, Arg(1) + 1, Arg(2)))

\* The positions (from 0) of a sequence of n elements that the indices
\* l, l + step, l + 2 * step, ... below min(r, n) name.
Selected(l, r, step, n) ==
  {i \in 0 .. n - 1 : i >= l /\ i < r /\ (i - l) % step = 0}

\* The elements of list at the positions in S, in the order of the list,
\* from position i on.
RECURSIVE AtPositions(_, _, _)
AtPositions(list, S, i) ==
  IF i >= Len(list) THEN <<>>
  ELSE (IF i \in S THEN <<list[i + 1]>> ELSE <<>>)
         \o AtPositions(list, S, i + 1)

\* C11: for step >= 1, get(l, r, step) returns the elements at the indices
\* l, l + step, ... below min(r, n) in that order and erase(l, r, step) the
\* sequence without exactly those; for l >= r get returns the empty sequence
\* and erase returns s; step = 0 raises.
C11_StepSlice ==
  /\ Op = "at_step" =>
       IF Arg(3) = 0 THEN OutOfRange
       ELSE /\ Ok
            /\ Holds(ret.out[1],
                     AtPositions(Old, Selected(Arg(1), Arg(2), Arg(3), N), 0))
            /\ Arg(1) >= Arg(2) => ret.out[1] = Empty
  /\ Op = "erase_step" =>
       IF Arg(3) = 0 THEN OutOfRange
       ELSE /\ Ok
            /\ Holds(ret.out[1],
                     AtPositions(Old, (0 .. N - 1)
                                   \ Selected(Arg(1), Arg(2), Arg(3), N), 0))
            /\ Arg(1) >= Arg(2) => ret.out[1] = seq

C11_Witness ==
  /\ Op = "at_step"
  /\ Arg(3) >= 2
  /\ Arg(1) >= 1
  /\ Arg(2) < N
  /\ Cardinality(Selected(Arg(1), Arg(2), Arg(3), N)) >= 3
  /\ seq.k = "D"
  /\ seq.middle.k # "E"
  /\ Holds(ret.out[1], AtPositions(Old, Selected(Arg(1), Arg(2), Arg(3), N), 0))

\* What Python's slice start:stop:step selects of list: the elements at the
\* indices start, start + step, ... that slice.indices gives, in that order.
PySlice(list, start, stop, step) ==
  LET c == slice_compute(Len(list), start, stop, step)
  IN [k \in 1 .. c.count |-> list[c.start + (k - 1) * c.step + 1]]

\* C12: for a negative step the slice s[start:stop:step] holds the elements
\* Python's slice selects, in descending order of index; s[::-1] holds the
\* elements of reverse().
C12_NegativeStep ==
  Op = "getitem_slice" /\ Arg(3) # <<>> /\ Arg(3)[1] < 0 =>
    /\ Ok
    /\ Holds(ret.out[1], PySlice(Old, Arg(1), Arg(2), Arg(3)))
    /\ Arg(1) = <<>> /\ Arg(2) = <<>> /\ Arg(3) = <<0 - 1>> =>
         ToList(ret.out[1]) = ToList(Seq_reverse(seq))

\* The sequence list with the values put at the positions in S, in order.
RECURSIVE Replaced(_, _, _, _)
Replaced(list, S, values, i) ==
  IF i >= Len(list) THEN <<>>
  ELSE IF i \in S
  THEN <<Head(values)>> \o Replaced(list, S, Tail(values), i + 1)
  ELSE <<list[i + 1]>> \o Replaced(list, S, values, i + 1)

\* C13 as stated: for step >= 2, set(l, r, step, values) returns s with the
\* count selected positions replaced when count values are supplied and
\* raises for every other number of values, for every count >= 0.
C13_Original ==
  Op = "set_step" /\ Arg(3) >= 2 =>
    LET S == Selected(Arg(1), Arg(2), Arg(3), N)
    IN IF Len(Arg(4)) = Cardinality(S)
       THEN Ok /\ Holds(ret.out[1], Replaced(Old, S, Arg(4), 0))
       ELSE ~Ok

\* C13: for step >= 2, set(l, r, step, values) with count >= 1 selected
\* positions returns s with those replaced in order when exactly count
\* values are supplied and raises out_of_range when fewer or more are; with
\* count = 0 it returns s as it is, whatever values are supplied.
C13_SetStep ==
  Op = "set_step" /\ Arg(3) >= 2 =>
    LET S == Selected(Arg(1), Arg(2), Arg(3), N)
    IN IF S = {} THEN Ok /\ ret.out[1] = seq
       ELSE IF Len(Arg(4)) = Cardinality(S)
       THEN /\ Ok
            /\ Holds(ret.out[1], Replaced(Old, S, Arg(4), 0))
            /\ Seq_size(ret.out[1]) = N
       ELSE OutOfRange

C13_Witness ==
  /\ Op = "set_step"
  /\ Arg(3) >= 2
  /\ Arg(1) >= 1
  /\ Len(Arg(4)) >= 3
  /\ Ok
  /\ seq.k = "D"
  /\ seq.middle.k # "E"
  /\ ToList(ret.out[1]) # Old
  /\ Holds(ret.out[1],
           Replaced(Old, Selected(Arg(1), Arg(2), Arg(3), N), Arg(4), 0))

\* C14 as stated: for all l, r >= 0 in either order, erase(l, r, 1) holds
\* what s.take_front(l).append(s.drop_front(r)) holds.
C14_Original ==
  Op = "erase_step" /\ Arg(3) = 1 =>
    /\ Ok
    /\ ToList(ret.out[1])
         = ToList(Seq_append(Seq_take_front(seq, Arg(1)),
                             Seq_drop_front(seq, Arg(2))))

\* C14: for l <= r, and for l > r >= n, erase(l, r, 1) holds what
\* s.take_front(l).append(s.drop_front(r)) holds: the elements before
\* position l and those from position r on; for l > r it returns s.
C14_EraseSlice ==
  Op = "erase_step" /\ Arg(3) = 1 =>
    /\ Ok
    /\ Arg(1) <= Arg(2) \/ Arg(2) >= N =>
         /\ Holds(ret.out[1],
                  ToList(Seq_append(Seq_take_front(seq, Arg(1)),
                                    Seq_drop_front(seq, Arg(2)))))
         /\ ToList(ret.out[1])
              = SubSeq(Old, 1, Min(Arg(1), N)) \o SubSeq(Old, Min(Arg(2), N) + 1, N)
    /\ Arg(1) > Arg(2) => ret.out[1] = seq

C14_Witness ==
  /\ Op = "erase_step"
  /\ Arg(3) = 1
  /\ 0 < Arg(1)
  /\ Arg(1) + 1 < Arg(2)
  /\ Arg(2) < N
  /\ seq.k = "D"
  /\ seq.middle.k # "E"
  /\ Holds(ret.out[1], SubSeq(Old, 1, Arg(1)) \o SubSeq(Old, Arg(2) + 1, N))

\* A slice index as Python reads it: a negative one counts from the end
\* once, and the result is clamped to lo .. hi.
PyBound(length, i, lo, hi) ==
  LET j == IF i < 0 THEN i + length ELSE i
  IN IF j < lo THEN lo ELSE IF j > hi THEN hi ELSE j

\* The indices Python's slice(start, stop, step) selects in a sequence of
\* that length.
PySelected(length, start, stop, step) ==
  IF step > 0
  THEN LET from == PyBound(length, start, 0, length)
           to == PyBound(length, stop, 0, length)
       IN {i \in 0 .. length - 1 :
             i >= from /\ i < to /\ (i - from) % step = 0}
  ELSE LET from == PyBound(length, start, 0 - 1, length - 1)
           to == PyBound(length, stop, 0 - 1, length - 1)
       IN {i \in 0 .. length - 1 :
             i <= from /\ i > to /\ (from - i) % (0 - step) = 0}

\* C15: adjust_index(length, start, stop, step) raises for step = 0;
\* otherwise count is the number of indices Python's slice selects, length
\* is as it was, step is |step|, and when count > 0,
\* 0 <= start <= stop <= length and start, start + step, ... (count terms)
\* are the selected indices in ascending order.
C15_AdjustIndex ==
  Op = "adjust_index" =>
    IF Arg(3) = 0 THEN OutOfRange
    ELSE LET S == PySelected(N, Arg(1), Arg(2), Arg(3))
         IN /\ Ok
            /\ ret.count = Cardinality(S)
            /\ ret.length = N
            /\ ret.step = (IF Arg(3) < 0 THEN 0 - Arg(3) ELSE Arg(3))
            /\ ret.count > 0 =>
                 /\ 0 <= ret.start
                 /\ ret.start <= ret.stop
                 /\ ret.stop <= N
                 /\ {ret.start + k * ret.step : k \in 0 .. ret.count - 1} = S
                 /\ \A i \in S : i < ret.stop

C15_Witness ==
  /\ Op = "adjust_index"
  /\ Arg(3) < 0 - 1
  /\ Arg(1) < 0
  /\ Arg(2) < 0 - N
  /\ Ok
  /\ ret.count >= 3
  /\ ret.start > 0
  /\ ret.stop = N + Arg(1) + 1

\* C16: the bulk constructor applied to a list xs of any length (0, 1 .. 8,
\* and more than 8 with middle levels built recursively) returns a sequence
\* of size |xs| that holds exactly xs; so building from the elements of a
\* sequence gives a sequence holding the same elements.
C16_FromIterable ==
  Op = "from_iterable" =>
    /\ Ok
    /\ Holds(ret.out[1], Arg(1))
    /\ Seq_size(ret.out[1]) = Len(Arg(1))
    /\ Arg(1) = Old => ToList(ret.out[1]) = ToList(seq)
    /\ Holds(Seq_from(ToList(ret.out[1])), ToList(ret.out[1]))

C16_Witness ==
  /\ Op = "from_iterable"
  /\ Len(Arg(1)) >= 31
  /\ Arg(1)[3] = 3
  /\ ret.out[1].middle.k = "D"
  /\ ret.out[1].middle.middle.k # "E"
  /\ Holds(ret.out[1], Arg(1))

\* k copies of list, one after the other.
RECURSIVE Copies(_, _)
Copies(list, k) == IF k = 0 THEN <<>> ELSE list \o Copies(list, k - 1)

\* C17: repeat(k) returns k copies of s one after the other for every
\* k >= 0: repeat(0) is the empty sequence, repeat(1) holds the elements of
\* s, and repeat(a + b) holds what repeat(a).append(repeat(b)) holds.
C17_Repeat ==
  Op = "repeat" /\ Arg(1) >= 0 =>
    /\ Ok
    /\ Holds(ret.out[1], Copies(Old, Arg(1)))
    /\ ret.out[1] = Seq_repeat(seq, Arg(1))
    /\ Arg(1) = 0 => ret.out[1] = Empty
    /\ Arg(1) = 1 => ToList(ret.out[1]) = Old
    /\ \A a \in 0 .. Arg(1) :
         Holds(Seq_append(Seq_repeat(seq, a), Seq_repeat(seq, Arg(1) - a)),
               ToList(ret.out[1]))

C17_Witness ==
  /\ Op = "repeat"
  /\ Arg(1) = MaxRepeat
  /\ N >= 3
  /\ Old # Copies(<<Old[1]>>, N)
  /\ Holds(ret.out[1], Copies(Old, Arg(1)))

\* list back to front.
Reversed(list) == [i \in 1 .. Len(list) |-> list[Len(list) + 1 - i]]

\* C18: reverse() returns a sequence of the same size that holds the
\* elements of s back to front; reversing that gives the elements of s
\* again; and what s.reverse() holds is what the reverse iterator of s
\* passes from rbegin() to rend().
C18_Reverse ==
  Op = "reverse" =>
    /\ Ok
    /\ Holds(ret.out[1], Reversed(Old))
    /\ Seq_size(ret.out[1]) = N
    /\ Holds(Seq_reverse(ret.out[1]), Old)
    /\ ToList(ret.out[1]) = Iterator_collect(TRUE, Iterator_begin(TRUE, seq))

C18_Witness ==
  /\ Op = "reverse"
  /\ seq.k = "D"
  /\ seq.middle.k = "D"
  /\ seq.left.order # seq.right.order
  /\ Old # Reversed(Old)
  /\ Holds(ret.out[1], Reversed(Old))

\* C19: an iteration from begin() passes the elements of s front to back
\* and one from rbegin() passes them back to front; the iterator equals the
\* end iterator after exactly n increments and not before; and for i < n,
\* *(begin() + i) is get(i), with (begin() + a) + b where begin() + (a + b)
\* is.
C19_Iterator ==
  /\ Op = "collect" =>
       LET k == Len(ret.list)
           all == IF Arg(1) THEN Reversed(Old) ELSE Old
       IN /\ k <= N
          /\ ret.list = SubSeq(all, 1, k)
          /\ (ret.it = Iterator_end) <=> (k = N)
          /\ ret.it # Iterator_end => Iterator_deref(ret.it).val = all[k + 1]
  /\ Op = "begin+" =>
       IF Arg(1) < N
       THEN /\ Ok
            /\ ret.val = Seq_at(seq, Arg(1)).val
            /\ ret.val = Old[Arg(1) + 1]
            /\ \A a \in 0 .. Arg(1) :
                 Iterator_add(FALSE,
                              Iterator_add(FALSE, Iterator_begin(FALSE, seq), a),
                              Arg(1) - a) = ret.it
       ELSE ret.it = Iterator_end

C19_Witness ==
  /\ Op = "collect"
  /\ Arg(1)
  /\ N >= 9
  /\ seq.middle.k = "D"
  /\ Len(ret.list) = N
  /\ ret.it = Iterator_end
  /\ ret.list = Reversed(Old)
  /\ ret.list # Old

\* The fold of the claim over a list, left to right, from the seed
\* 0x9e3779b9, in words of SizeBits bits.
RECURSIVE FoldHash(_)
FoldHash(list) ==
  IF list = <<>> THEN Golden
  ELSE LET seed == FoldHash(SubSeq(list, 1, Len(list) - 1))
           elem == list[Len(list)]
       IN (elem + Golden + (seed * 64) + (seed \div 4)) % SizeMod

\* C20: the hash of a sequence is the left-to-right fold
\* seed = hash(elem) + 0x9e3779b9 + (seed << 6) + (seed >> 2) in word
\* arithmetic from the seed 0x9e3779b9, so it is the same for sequences that
\* hold the same elements in trees of different shapes.
C20_Hash ==
  Op = "hash" =>
    /\ Ok
    /\ ret.val = FoldHash(Old)
    /\ ret.val \in 0 .. SizeMod - 1
    /\ ret.val = HashIterable(Seq_from(Old))
    /\ ret.val = HashIterable(Seq_from_input(Empty, Old))

C20_Witness ==
  /\ Op = "hash"
  /\ N = MaxSize
  /\ seq # Seq_from(Old)
  /\ seq # Seq_from_input(Empty, Old)
  /\ Old # Reversed(Old)
  /\ ret.val = FoldHash(Old)
  /\ ret.val # FoldHash(Reversed(Old))

\* The bound i of a range of positions of a sequence of n elements, counted
\* from the end when negative (as list.index takes it).
FromEnd(n, i) == IF i >= 0 THEN i ELSE IF i + n > 0 THEN i + n ELSE 0

\* The positions (from 0) of v in list within start <= i < stop.
Positions(list, v, start, stop) ==
  {i \in 0 .. Len(list) - 1 :
     /\ FromEnd(Len(list), start) <= i
     /\ stop # <<>> => i < FromEnd(Len(list), stop[1])
     /\ list[i + 1] = v}

\* C21: index(v, start, stop) returns the position, counted from the
\* beginning of the sequence, of the first element equal to v among the
\* positions start <= i < stop, and raises ValueError when there is none.
C21_Index ==
  Op = "index" =>
    LET at == Positions(Old, Arg(1), Arg(2), Arg(3))
    IN IF at = {} THEN ret.err = "ValueError"
       ELSE /\ Ok
            /\ ret.val \in at
            /\ \A i \in at : ret.val <= i

\* The indices of a view counted from the front, adjusted against n.
Adjusted(args, n) == [j \in DOMAIN args |-> IF args[j] < 0 THEN args[j] + n ELSE args[j]]

\* Every index is in range and greater than the one before it.
Ascending(idx, n) ==
  /\ \A j \in DOMAIN idx : 0 <= idx[j] /\ idx[j] < n
  /\ \A j \in DOMAIN idx : j > 1 => idx[j - 1] < idx[j]

\* list[from:to] with 0 <= from.
Chunk(list, from, to) == SubSeq(list, from + 1, to)

\* The concatenation of the chunks and picked elements of a view.
RECURSIVE Restored(_)
Restored(views) ==
  IF Len(views) = 1 THEN ToList(views[1])
  ELSE ToList(views[1]) \o <<views[2]>> \o Restored(Tail(Tail(views)))

\* C22: view(i1, ..., ik) with indices that, adjusted against n, are in
\* range and strictly ascending returns the 2k+1 items s[:i1], s[i1],
\* s[i1+1:i2], s[i2], ..., s[ik+1:], which concatenated restore s; with an
\* index out of range or not above the one before it, it raises an index
\* error and returns nothing.
C22_View ==
  Op = "view" =>
    LET idx == Adjusted(Arg(1), N)
        k == Len(idx)
    IN IF Ascending(idx, N)
       THEN /\ Ok
            /\ Len(ret.views) = 2 * k + 1
            /\ \A j \in 1 .. k :
                 /\ ret.views[2 * j] = Old[idx[j] + 1]
                 /\ Holds(ret.views[2 * j - 1],
                          Chunk(Old, IF j = 1 THEN 0 ELSE idx[j - 1] + 1,
                                idx[j]))
            /\ Holds(ret.views[2 * k + 1],
                     Chunk(Old, IF k = 0 THEN 0 ELSE idx[k] + 1, N))
            /\ Restored(ret.views) = Old
       ELSE /\ ret.err \in {"out_of_range", "index_error"}
            /\ DOMAIN ret = {"err"}

\* A view of three picks, the first given from the end and with at least two
\* elements between the first two, was returned.
C22_Witness ==
  /\ Op = "view"
  /\ Ok
  /\ Len(Arg(1)) = 3
  /\ Arg(1)[1] < 0
  /\ Arg(1)[2] > 0
  /\ Len(ToList(ret.views[3])) >= 2

\* ------------------------------------------------ the caller of evolvers

\* The two evolvers made from seq.
Evolvers == {1, 2}

\* An index counted from the front, and whether it is one of n elements.
FromFront(n, i) == IF i < 0 THEN i + n ELSE i

Within(n, i) == 0 <= FromFront(n, i) /\ FromFront(n, i) < n

\* The list mset makes of list, and whether every index was within it.
RECURSIVE MsetList(_, _)
MsetList(list, args) ==
  IF args = <<>> THEN [ok |-> TRUE, list |-> list]
  ELSE IF Len(args) = 1 \/ ~Within(Len(list), args[1])
  THEN [ok |-> FALSE, list |-> list]
  ELSE MsetList([list EXCEPT ![FromFront(Len(list), args[1]) + 1] = args[2]],
                Tail(Tail(args)))

\* The list the persistent operation of that name makes of list; list itself
\* when the operation raises.
Applied(list, name, args) ==
  LET n == Len(list)
      at == {i \in 1 .. n : list[i] = args[1]}
  IN CASE name = "append" -> list \o <<args[1]>>
       [] name = "appendleft" -> <<args[1]>> \o list
       [] name = "extend" -> list \o args
       [] name = "extendleft" -> args \o list
       [] name = "set" ->
            IF Within(n, args[1])
            THEN [list EXCEPT ![FromFront(n, args[1]) + 1] = args[2]]
            ELSE list
       [] name = "mset" ->
            IF MsetList(list, args).ok THEN MsetList(list, args).list
            ELSE list
       [] name \in {"delete", "pop"} ->
            IF Within(n, args[1]) THEN Erased(list, FromFront(n, args[1]))
            ELSE list
       [] name = "insert" -> Inserted(list, Clamped(n, args[1]), args[2])
       [] name = "remove" ->
            IF at = {} THEN list
            ELSE Erased(list, (CHOOSE i \in at : \A j \in at : i <= j) - 1)
       [] name = "reverse" -> Reversed(list)
       [] name = "clear" -> <<>>

\* The indices handed to an evolver holding n elements, and the index pairs
\* handed to its mset.
EvolverIndices(n) == (0 - n - 1) .. n

MsetIndices(n) == {0 - n - 1, 0 - 1, 0, n}

\* evo1 = seq.evolver(); evo2 = seq.evolver()
InitEvolver ==
  /\ seq \in {Empty, Seq_from(Operand(MaxEvolved))}
  /\ call = Call("evolver", <<>>)
  /\ ret = ReturnNone
  /\ evolvers = [e \in Evolvers |-> Evolver(seq)]
  /\ history = [own |-> [e \in Evolvers |-> ToList(seq)],
                origin |-> ToList(seq),
                snap |-> <<>>]
  /\ map = Null

\* No method of an evolver is under way.
Quiet == call.op = "evolver"

\* The sequence evolver e holds, and its size.
Held(e) == evolvers[e].seq

Size(e) == Seq_size(Held(e))

\* A method of evolver e is called: the evolvers after it, what it returned
\* or raised, and what the persistent operation makes of the list of e's own
\* calls so far.
EvolverCall(e, name, args, done) ==
  /\ Quiet
  /\ call' = Call(name, <<e>> \o args)
  /\ ret' = done.ret
  /\ evolvers' = done.evos
  /\ history' = [history EXCEPT !.own[e] = Applied(@, name, args)]
  /\ UNCHANGED <<seq, map>>

\* A mutable version is called: r is what the PSequence method of that name
\* makes of the sequence the evolver holds.
Mutate(e, name, args, r) ==
  EvolverCall(e, name, args, Evolver_mutate(evolvers, e, r))

Clear(e) == EvolverCall(e, "clear", <<>>, Evolver_clear(evolvers, e))

\* pop(index): deleted is what delete(index) makes of the held sequence.
Pop(e, index, deleted) ==
  \E value \in {Py_getitem(Held(e), index)} :
    EvolverCall(e, "pop", <<index>>, Evolver_pop(evolvers, e, value, deleted))

\* The calls that end in one erase of the held sequence, each with what
\* finding the index returns or raises: delete(i) and pop(i), which is
\* __getitem__(i) and then delete(i), adjust i; remove(v) looks v up.
Erasures(s) ==
  {[name |-> "delete", args |-> <<i>>, at |-> adjust_index(Seq_size(s), i)] :
     i \in EvolverIndices(Seq_size(s))}
    \cup {[name |-> "pop", args |-> <<i>>,
           at |-> adjust_index(Seq_size(s), i)] :
            i \in EvolverIndices(Seq_size(s))}
    \cup {[name |-> "remove", args |-> <<v>>, at |-> Py_index(s, v, 0, <<>>)] :
            v \in Values \cup {Absent}}

\* snapshot = evo.persistent(): the caller keeps the sequence returned, and
\* the history the list it holds then.
Persistent(e) ==
  /\ Quiet
  /\ call' = Call("persistent", <<e>>)
  /\ ret' = ReturnNone
  /\ history' = [history EXCEPT !.snap =
                   <<[seq |-> Evolver_persistent(evolvers, e),
                      list |-> ToList(Evolver_persistent(evolvers, e))]>>]
  /\ UNCHANGED <<seq, evolvers, map>>

\* The method is over.
Returned ==
  /\ ~Quiet
  /\ call' = Call("evolver", <<>>)
  /\ ret' = ReturnNone
  /\ UNCHANGED <<seq, evolvers, history, map>>

\* The default index of pop.
Last == 0 - 1

NextEvolver ==
  \/ Quiet /\ \E e \in Evolvers : Size(e) < MaxEvolved
           /\ \E v \in Values :
                \E r \in {ReturnSeq(Seq_push_back(Held(e), v))} :
                  Mutate(e, "append", <<v>>, r)
  \/ Quiet /\ \E e \in Evolvers : Size(e) < MaxEvolved
           /\ \E v \in Values :
                \E r \in {ReturnSeq(Seq_push_front(Held(e), v))} :
                  Mutate(e, "appendleft", <<v>>, r)
  \/ Quiet /\ \E e \in Evolvers : \E n \in 0 .. MaxEvolved - Size(e) :
                \E r \in {ReturnSeq(Py_extendright(Held(e), Operand(n)))} :
                  Mutate(e, "extend", Operand(n), r)
  \/ Quiet /\ \E e \in Evolvers : \E n \in 0 .. MaxEvolved - Size(e) :
                \E r \in {ReturnSeq(Py_extendleft(Held(e), Operand(n)))} :
                  Mutate(e, "extendleft", Operand(n), r)
  \/ Quiet /\ \E e \in Evolvers : \E i \in EvolverIndices(Size(e)) :
                \E v \in Values : \E r \in {Py_set(Held(e), i, v)} :
                  Mutate(e, "set", <<i, v>>, r)
  \/ Quiet /\ \E e \in Evolvers : \E i \in MsetIndices(Size(e)) :
                \E j \in {Last, Size(e)} : \E v \in Values :
                  \E r \in {Py_mset(Held(e), <<i, v, j, v>>)} :
                    Mutate(e, "mset", <<i, v, j, v>>, r)
  \/ Quiet /\ \E e \in Evolvers : \E c \in Erasures(Held(e)) :
                \E r \in {Erase_at(Held(e), c.at)} :
                  IF c.name = "pop" THEN Pop(e, c.args[1], r)
                  ELSE Mutate(e, c.name, c.args, r)
  \/ Quiet /\ \E e \in Evolvers : Size(e) < MaxEvolved
           /\ \E i \in EvolverIndices(Size(e)) : \E v \in Values :
                \E r \in {Py_insert(Held(e), i, v)} :
                  Mutate(e, "insert", <<i, v>>, r)
  \/ Quiet /\ \E e \in Evolvers :
                \E r \in {ReturnSeq(Seq_reverse(Held(e)))} :
                  Mutate(e, "reverse", <<>>, r)
  \/ Quiet /\ \E e \in Evolvers : Clear(e)
  \/ Quiet /\ \E e \in Evolvers : Persistent(e)
  \/ Returned

SpecEvolver == InitEvolver /\ [][NextEvolver]_vars

\* C23: for the evolvers made from one sequence s0, under every interleaving
\* of their mutating calls, what each evolver holds (and persistent()
\* returns) is what the persistent operations make of s0 in that evolver's
\* own order of calls, a call that raises adding nothing; s0 and the
\* snapshot an earlier persistent() returned hold the lists they held.
C23_Evolvers ==
  /\ \A e \in Evolvers :
       Holds(Evolver_persistent(evolvers, e), history.own[e])
  /\ Holds(seq, history.origin)
  /\ \A s \in {history.snap[j] : j \in DOMAIN history.snap} :
       Holds(s.seq, s.list)

\* The two evolvers hold different lists, both differ from the list of s0
\* and from that of the snapshot taken in between, and the last call raised.
C23_Witness ==
  /\ history.snap # <<>>
  /\ history.own[1] # history.own[2]
  /\ \A e \in Evolvers :
       /\ history.own[e] # history.origin
       /\ history.own[e] # history.snap[1].list
  /\ history.snap[1].list # history.origin
  /\ ret.err # ""

MaxKeys == 5

Keys == 1 .. MaxKeys

delta == 4

gamma == 2

Aborted == [k |-> "abort"]

\* Node(key, value, size, left, right), read as the initialisation of the
\* five members.
Map_Node(key, value, size, left, right) ==
  IF left = Aborted \/ right = Aborted THEN Aborted
  ELSE [key |-> key, value |-> value, size |-> size % SizeMod,
        left |-> left, right |-> right]

\* Node(key, value)
Map_Leaf(key, value) == Map_Node(key, value, 1, Null, Null)

Map_sizes(node) == IF node = Null THEN 0 ELSE node.size

\* Node(key, value, left, right)
Map_Node4(key, value, left, right) ==
  IF left = Aborted \/ right = Aborted THEN Aborted
  ELSE Map_Node(key, value, Map_sizes(left) + Map_sizes(right), left, right)

Map_rotate_left(key, value, left, right, sx) ==
  IF right = Null THEN Aborted
  ELSE IF Map_sizes(right.left) < (gamma * Map_sizes(right.right)) % SizeMod
  THEN Map_Node(right.key, right.value, sx,
                Map_Node4(key, value, left, right.left), right.right)
  ELSE IF right.left = Null THEN Aborted
  ELSE Map_Node(right.left.key, right.left.value, sx,
                Map_Node4(key, value, left, right.left.left),
                Map_Node4(right.key, right.value, right.left.right, right.right))

Map_rotate_right(key, value, left, right, sx) ==
  IF left = Null THEN Aborted
  ELSE IF Map_sizes(left.right) < (gamma * Map_sizes(left.left)) % SizeMod
  THEN Map_Node(left.key, left.value, sx,
                left.left, Map_Node4(key, value, left.right, right))
  ELSE IF left.right = Null THEN Aborted
  ELSE Map_Node(left.right.key, left.right.value, sx,
                Map_Node4(left.key, left.value, left.left, left.right.left),
                Map_Node4(key, value, left.right.right, right))

Map_balance(key, value, left, right) ==
  IF left = Aborted \/ right = Aborted THEN Aborted
  ELSE LET sl == Map_sizes(left)
           sr == Map_sizes(right)
           sx == (sl + sr + 1) % SizeMod
       IN IF sx <= 2 THEN Map_Node(key, value, sx, left, right)
          ELSE IF sr >= (delta * sl) % SizeMod
          THEN Map_rotate_left(key, value, left, right, sx)
          ELSE IF sl >= (delta * sr) % SizeMod
          THEN Map_rotate_right(key, value, left, right, sx)
          ELSE Map_Node4(key, value, left, right)

RECURSIVE Map_insert(_, _, _)
Map_insert(node, key, value) ==
  IF node = Null THEN Map_Leaf(key, value)
  ELSE IF key < node.key
  THEN Map_balance(node.key, node.value,
                   Map_insert(node.left, key, value), node.right)
  ELSE IF node.key < key
  THEN Map_balance(node.key, node.value,
                   node.left, Map_insert(node.right, key, value))
  ELSE Map_Node(key, value, node.size, node.left, node.right)

\* std::nullopt is Null.
RECURSIVE Map_lookup(_, _)
Map_lookup(node, key) ==
  IF node = Null THEN Null
  ELSE IF key < node.key THEN Map_lookup(node.left, key)
  ELSE IF node.key < key THEN Map_lookup(node.right, key)
  ELSE node.value

Map_View(key, value, rest) == [key |-> key, value |-> value, rest |-> rest]

RECURSIVE Map_viewmin(_)
Map_viewmin(node) ==
  IF node.left = Null THEN Map_View(node.key, node.value, node.right)
  ELSE LET rec == Map_viewmin(node.left)
       IN Map_View(rec.key, rec.value,
                   Map_Node(node.key, node.value, node.size - 1 + SizeMod,
                            rec.rest, node.right))

RECURSIVE Map_viewmax(_)
Map_viewmax(node) ==
  IF node.right = Null THEN Map_View(node.key, node.value, node.left)
  ELSE LET rec == Map_viewmax(node.right)
       IN Map_View(rec.key, rec.value,
                   Map_Node(node.key, node.value, node.size - 1 + SizeMod,
                            node.left, rec.rest))

Map_glue(left, right) ==
  IF left = Null THEN right
  ELSE IF right = Null THEN left
  ELSE IF left.size > right.size
  THEN LET max == Map_viewmax(left)
       IN Map_balance(max.key, max.value, max.rest, right)
  ELSE LET min == Map_viewmin(right)
       IN Map_balance(min.key, min.value, left, min.rest)

RECURSIVE Map_pop(_, _)
Map_pop(node, key) ==
  IF node = Null THEN [first |-> Null, second |-> node]
  ELSE IF key < node.key
  THEN LET rec == Map_pop(node.left, key)
       IN [first |-> rec.first,
           second |-> Map_balance(node.key, node.value, rec.second, node.right)]
  ELSE IF node.key < key
  THEN LET rec == Map_pop(node.right, key)
       IN [first |-> rec.first,
           second |-> Map_balance(node.key, node.value, node.left, rec.second)]
  ELSE [first |-> node.value, second |-> Map_glue(node.left, node.right)]

\* ------------------------------------------------- caller of the sorted map

\* SortedMap(): the caller starts from the empty map, holds one map and
\* replaces it by what insert and pop return.
InitMap ==
  /\ map = Null
  /\ seq = Empty
  /\ call = Call("sortedmap", <<>>)
  /\ ret = ReturnNone
  /\ evolvers = <<>>
  /\ history = <<>>

Running == ret.err # "abort"

MapCall(name, args, result, node) ==
  /\ Running
  /\ call' = Call(name, args)
  /\ ret' = IF node = Aborted THEN Raise("abort") ELSE result
  /\ map' = IF node = Aborted THEN map ELSE node
  /\ UNCHANGED <<seq, evolvers, history>>

MapInsert(key, value) ==
  \E node \in {Map_insert(map, key, value)} :
    MapCall("insert", <<key, value>>, ReturnNone, node)

MapLookup(key) ==
  MapCall("lookup", <<key>>, ReturnValue(Map_lookup(map, key)), map)

MapPop(key) ==
  \E popped \in {Map_pop(map, key)} :
    MapCall("pop", <<key>>, ReturnValue(popped.first), popped.second)

NextMap ==
  \/ \E key \in Keys : \E value \in Values : MapInsert(key, value)
  \/ \E key \in Keys : MapLookup(key)
  \/ \E key \in Keys : MapPop(key)

SpecMap == InitMap /\ [][NextMap]_vars

\* The keys of a tree in order, whatever sizes its nodes carry.
RECURSIVE Map_keys(_)
Map_keys(node) ==
  IF node = Null THEN <<>>
  ELSE Map_keys(node.left) \o <<node.key>> \o Map_keys(node.right)

RECURSIVE Map_count(_)
Map_count(node) ==
  IF node = Null THEN 0 ELSE 1 + Map_count(node.left) + Map_count(node.right)

RECURSIVE Map_Nodes(_)
Map_Nodes(node) ==
  IF node = Null THEN {}
  ELSE {node} \cup Map_Nodes(node.left) \cup Map_Nodes(node.right)

\* C25: after insert(k, v) the lookup of k gives v and the lookup of every
\* other key gives what it gave; after pop(k) the lookup of k is absent, pop
\* returned what the lookup of k gave (absent when k was not there) and
\* every other key keeps its value; neither call fails to return.
C25_Lookup ==
  [][/\ call'.op \in {"insert", "pop"} => ret'.err = ""
     /\ call'.op = "insert" =>
          \A k \in Keys :
            Map_lookup(map', k) =
              IF k = call'.args[1] THEN call'.args[2] ELSE Map_lookup(map, k)
     /\ call'.op = "pop" =>
          /\ ret'.val = Map_lookup(map, call'.args[1])
          /\ \A k \in Keys :
               Map_lookup(map', k) =
                 IF k = call'.args[1] THEN Null ELSE Map_lookup(map, k)]_vars

\* C26: after every insert and every pop each node of the map has
\* size = 1 + size(left) + size(right), size(left) <= 4 * (size(right) + 1)
\* and size(right) <= 4 * (size(left) + 1).
C26_Balanced ==
  \A node \in Map_Nodes(map) :
    /\ node.size = 1 + Map_sizes(node.left) + Map_sizes(node.right)
    /\ Map_sizes(node.left) <= delta * (Map_sizes(node.right) + 1)
    /\ Map_sizes(node.right) <= delta * (Map_sizes(node.left) + 1)

\* ------------------------------------------------------- sizes and shape

\* The sequences at hand: the one the caller keeps and those the call
\* under way returned.
AtHand ==
  {seq} \cup (IF "out" \in DOMAIN ret
              THEN {ret.out[j] : j \in DOMAIN ret.out} ELSE {})

RECURSIVE Node_sized(_)
Node_sized(n) ==
  \/ n.k = "V"
  \/ /\ n.size = Len(Node_list(n))
     /\ \A j \in 1 .. 3 : n.items[j] = Null \/ Node_sized(n.items[j])

RECURSIVE Sum(_, _)
Sum(sizes, j) == IF j = 0 THEN 0 ELSE sizes[j] + Sum(sizes, j - 1)

Digit_sized(d) ==
  /\ d.size = Sum([j \in 1 .. d.order |-> Node_size(d.items[j])], d.order)
  /\ \A j \in 1 .. d.order : Node_sized(d.items[j])

RECURSIVE Tree_sized(_)
Tree_sized(t) ==
  CASE t.k = "E" -> TRUE
    [] t.k = "S" -> Node_sized(t.node)
    [] t.k = "D" ->
         /\ t.size = t.left.size + Tree_size(t.middle) + t.right.size
         /\ Digit_sized(t.left)
         /\ Tree_sized(t.middle)
         /\ Digit_sized(t.right)

\* C27: in every sequence the caller holds or was handed, each branch's
\* size is the number of leaves below it, each digit's size the sum of its
\* nodes' sizes, each Deep's size prefix.size + middle.size + suffix.size,
\* and size() the number of elements.
C27_Sizes ==
  \A s \in AtHand : Tree_sized(s) /\ Seq_size(s) = Len(ToList(s))

\* An erase returned a tree whose middle holds a branch.
C27_Witness ==
  /\ call.op = "erase"
  /\ ret.err = ""
  /\ ret.out[1].k = "D"
  /\ ret.out[1].middle # Empty

RECURSIVE Node_shaped(_, _)
Node_shaped(n, depth) ==
  IF n.k = "V" THEN depth = 0
  ELSE /\ depth > 0
       /\ \A j \in 1 .. 2 :
            n.items[j] # Null /\ Node_shaped(n.items[j], depth - 1)
       /\ n.items[3] = Null \/ Node_shaped(n.items[3], depth - 1)

Digit_shaped(d, depth) ==
  /\ d.order \in 1 .. 4
  /\ \A j \in 1 .. 4 :
       IF j <= d.order
       THEN d.items[j] # Null /\ Node_shaped(d.items[j], depth)
       ELSE d.items[j] = Null

RECURSIVE Tree_shaped(_, _)
Tree_shaped(t, depth) ==
  CASE t.k = "E" -> TRUE
    [] t.k = "S" -> Node_shaped(t.node, depth)
    [] t.k = "D" ->
         /\ Digit_shaped(t.left, depth)
         /\ Tree_shaped(t.middle, depth + 1)
         /\ Digit_shaped(t.right, depth)

\* C28: every sequence the caller holds or was handed is well-shaped: each
\* digit has order 1..4 with exactly its first order slots non-null, the
\* nodes of a digit and the children of a branch have one depth, a branch has
\* 2 or 3 children, the prefix and suffix of a Deep have one depth and its
\* middle is empty or one level deeper; so no operation on it meets a digit
\* order outside 1..4, a value node where a branch is due, or a number of
\* boundary nodes outside 2..8.
C28_Shape == \A s \in AtHand : Tree_shaped(s, 0)

\* An insert returned a tree whose middle is itself a Deep.
C28_Witness ==
  /\ call.op = "insert"
  /\ ret.err = ""
  /\ ret.out[1].k = "D"
  /\ ret.out[1].middle.k = "D"

\* -------------------------------------------------- regrouping in append

\* The branch sizes the spec's table gives for 2..8 boundary nodes, and
\* those the switch of Tree::append makes, both read left to right.
TableClaimed ==
  [count \in 2 .. 8 |->
     CASE count = 2 -> <<2>>
       [] count = 3 -> <<3>>
       [] count = 4 -> <<2, 2>>
       [] count = 5 -> <<3, 2>>
       [] count = 6 -> <<3, 3>>
       [] count = 7 -> <<3, 2, 2>>
       [] count = 8 -> <<2, 3, 3>>]

TableMade ==
  [count \in 2 .. 8 |->
     CASE count = 5 -> <<2, 3>>
       [] count = 7 -> <<2, 2, 3>>
       [] OTHER -> TableClaimed[count]]

\* The nodes cut into branches of the given sizes, left to right.
RECURSIVE Grouped(_, _)
Grouped(nodes, sizes) ==
  IF sizes = <<>> THEN <<>>
  ELSE <<IF Head(sizes) = 2 THEN Node2(nodes[1], nodes[2])
         ELSE Node3(nodes[1], nodes[2], nodes[3])>>
       \o Grouped(SubSeq(nodes, Head(sizes) + 1, Len(nodes)), Tail(sizes))

\* The branches put in front of a tree, the first of them foremost.
RECURSIVE PushedFront(_, _)
PushedFront(branches, t) ==
  IF branches = <<>> THEN t
  ELSE Tree_push_front(PushedFront(Tail(branches), t), Head(branches))

\* The nodes between two Deep trees: the suffix digit of the left one, then
\* the prefix digit of the right one.
Boundary(left, right) ==
  SubSeq(left.right.items, 1, left.right.order)
    \o SubSeq(right.left.items, 1, right.left.order)

\* What the append under way returned is the left prefix, the left middle
\* appended to the right middle with the regrouped boundary in front, and
\* the right suffix.
Regrouped(table) ==
  (call.op = "extendright" /\ seq.k = "D" /\ Seq_from(call.args[1]).k = "D")
    => LET that == Seq_from(call.args[1])
           mid == Boundary(seq, that)
           rtree == PushedFront(Grouped(mid, table[Len(mid)]), that.middle)
       IN ret.out[1] =
            Deep(seq.size + that.size, seq.left,
                 Tree_append(seq.middle, rtree), that.right)

\* C29 as claimed: the boundary nodes of two appended Deep trees are
\* regrouped by the table 2 -> [2], 3 -> [3], 4 -> [2,2], 5 -> [3,2],
\* 6 -> [3,3], 7 -> [3,2,2], 8 -> [2,3,3], the branches pushed onto the front
\* of the right middle and the two middles appended.
C29_Claimed == Regrouped(TableClaimed)

\* C29: the same with 5 -> [2,3] and 7 -> [2,2,3].
C29_Regroup == Regrouped(TableMade)

\* Two Deep trees with five or seven boundary nodes were appended.
C29_Witness ==
  /\ call.op = "extendright"
  /\ seq.k = "D"
  /\ Seq_from(call.args[1]).k = "D"
  /\ Len(Boundary(seq, Seq_from(call.args[1]))) \in {5, 7}

\* ------------------------------------------ the levels of the bulk build

\* How many nodes of the next depth the middle of count > 8 nodes is built
\* from, and how many nodes the suffix takes: as the spec has it (claimed)
\* and as Tree::from computes it.
MiddleNodes(claimed, count) ==
  IF claimed THEN (count + 2 + 2) \div 3 - 2 ELSE (count + 2) \div 3 - 2

SuffixNodes(claimed, count) ==
  IF claimed \/ count % 3 # 0 THEN count % 3 ELSE 3

\* t is built of count nodes of this depth holding values: beyond 8 nodes
\* the prefix holds the first 3, the suffix the last ones, and the middle is
\* built of the nodes in between, three to a node of the next depth.
RECURSIVE Bulk(_, _, _, _, _)
Bulk(claimed, t, count, depth, values) ==
  count > 8 =>
    LET width == 3 ^ depth
        last == SuffixNodes(claimed, count) * width
    IN /\ t.k = "D"
       /\ t.left.order = 3
       /\ t.right.order = SuffixNodes(claimed, count)
       /\ Digit_depth(t.left) = depth
       /\ Digit_depth(t.right) = depth
       /\ Tree_size(t.middle) = MiddleNodes(claimed, count) * 3 * width
       /\ Digit_list(t.left) = SubSeq(values, 1, 3 * width)
       /\ Digit_list(t.right) =
            SubSeq(values, Len(values) - last + 1, Len(values))
       /\ Bulk(claimed, t.middle, MiddleNodes(claimed, count), depth + 1,
               SubSeq(values, 3 * width + 1, Len(values) - last))

\* C30 as claimed: in the bulk constructor a level of count > 8 nodes gives
\* the prefix the first 3 nodes, builds the middle from
\* ceiling((count + 2) / 3) - 2 nodes of the next depth and gives the suffix
\* the remaining count mod 3 nodes.
C30_Claimed ==
  Op = "from_iterable" => Bulk(TRUE, ret.out[1], Len(Arg(1)), 0, Arg(1))

\* C30: the same with the middle built from floor((count + 2) / 3) - 2
\* nodes and the suffix taking count mod 3 nodes, or 3 when that is 0.
C30_Bulk ==
  Op = "from_iterable" => Bulk(FALSE, ret.out[1], Len(Arg(1)), 0, Arg(1))

\* A list was built whose middle level has 9 nodes, more than 8 and a
\* multiple of 3: the middle has a middle of its own and a suffix of 3.
C30_Witness ==
  /\ Op = "from_iterable"
  /\ Len(Arg(1)) > 8
  /\ MiddleNodes(FALSE, Len(Arg(1))) = 9
  /\ ret.out[1].middle.k = "D"
  /\ ret.out[1].middle.right.order = 3
  /\ ret.out[1].middle.middle # Empty

====
